---- MODULE Spec2Model ----
(***************************************************************************)
(* x-mcp: the MCP server (v2.1.0, src/unnamed/part_001) and its one-time   *)
(* OAuth 1.0a authorization flow (src/setup.js).                           *)
(*                                                                         *)
(* One behaviour is one process lifetime.  Init draws the command line and *)
(* the environment; the actions are the top-level statements of the two    *)
(* scripts, the tool handlers up to each await, and the events the event   *)
(* loop delivers (HTTP responses, the callback request, the timer).        *)
(* SignSpec is apart: its behaviours apply enc, the signer's parameter     *)
(* string and the signed dispatchers to drawn strings, parameter lists and *)
(* calls.                                                                  *)
(***************************************************************************)
EXTENDS Integers, Sequences, FiniteSets, TLC

VARIABLES
    entry,        \* the script node was started on: "server" or "setup"
    argv,         \* process.argv: the set of flags given
    env,          \* process.env: the five credentials
    pc,           \* position of the server script's top level
    exitCode,     \* Running, or the status the process exited with
    registered,   \* McpServer's tools, in registration order
    connected,    \* server.connect(transport) has run
    toolCount,    \* const toolCount (0 before it is assigned)
    stderr,       \* console.error diagnostics of the server script
    _myUserId,    \* let _myUserId
    calls,        \* per request slot: the handler invocation in flight
    returned,     \* the tool result handed to the transport by this step
    lookups,      \* number of GET /users/me requests issued so far
    fpc,          \* position of setup.js's top level ("notrun" in a server run)
    flowSent,     \* the signed requests setup.js has handed to fetch
    oauthToken,   \* const oauthToken, oauthTokenSecret: the temporary credentials
    oauthTokenSecret,
    browser,      \* the child of exec(openCmd): "none", "running", "opened" or "failed"
    listener,     \* srv: "none", "binding", "bound", "failed" or "closed"
    promise,      \* the verifier promise: "none", "pending", "resolved", "rejected"
    verifier,     \* the value the promise resolved with
    timer,        \* the setTimeout: "none", "armed" or "fired"
    elapsed,      \* ms since the timer was armed
    keepAlive,    \* a client connection accepted before srv.close() is still open
    callbacks,    \* number of /callback requests the handler has served
    stdout,       \* the credentials setup.js printed
    flowErr,      \* what setup.js reported when it failed
    task,         \* what a signing run computes: "none", "enc" or "params"
    str,          \* the argument of enc
    encoded,      \* per script, what its enc returned
    rnd,          \* the timestamp and nonce the signer drew
    queryA,       \* the parameters given to the signer, as inserted,
    queryB,       \*   and the same parameters inserted in another order
    built,        \* per parameter list and script, const paramStr
    signed        \* the first and the second signed call of a signing run

signVars == <<task, str, encoded, rnd, queryA, queryB, built, signed>>
mainVars == <<entry, argv, env>>
\* What no step of the two scripts changes
procVars == <<mainVars, signVars>>
srvVars  == <<registered, connected, toolCount, stderr, _myUserId, calls,
              returned, lookups>>
flowVars == <<fpc, flowSent, oauthToken, oauthTokenSecret, browser, listener,
              promise, verifier, timer, elapsed, keepAlive, callbacks, stdout, flowErr>>
vars == <<entry, argv, env, pc, exitCode, registered, connected, toolCount,
          stderr, _myUserId, calls, returned, lookups, fpc, flowSent, oauthToken,
          oauthTokenSecret, browser, listener, promise, verifier, timer, elapsed,
          keepAlive, callbacks, stdout, flowErr, signVars>>

----------------------------------------------------------------------------
(* Bounds of the model *)

\* GET /users/me requests a behaviour may issue
MaxLookups == 2

\* /callback requests served in one run of the flow
MaxCallbacks == 2

\* Longest argument of enc, and most query parameters, of a signing run
MaxStr == 2
MaxQuery == 2

\* Concurrent tool calls: the request slots of the transport
Slots == {"r1", "r2"}

\* Values an environment variable takes: unset/empty, or set
EnvValues == {"", "v"}

\* Ids a caller passes to a tool, and the id upstream reports for the caller
ArgIds == {"1001"}

----------------------------------------------------------------------------
(* Values *)

NULL == "null"
Running == -1

\* HTTP response bodies: empty, the /users/me payload, a JSON document
\* without a data member, as upstream sends with an error status.
MeJson == "{\"data\":{\"id\":\"42\"}}"
ErrJson == "{\"title\":\"Too Many Requests\"}"
Bodies == {"", MeJson, ErrJson}

\* A 204 carries no body.
Responses ==
    {[status |-> s, body |-> b] : s \in {200, 429}, b \in Bodies}
    \cup {[status |-> 204, body |-> ""]}

\* Response.ok
ResOk(res) == res.status >= 200 /\ res.status <= 299

\* JSON.parse as Response.json() applies it: a value, or a SyntaxError.
JsonParses(body) == body \in {MeJson, ErrJson}
JsonValue(body) ==
    IF body = MeJson THEN [data |-> [id |-> "42"]]
    ELSE [title |-> "Too Many Requests"]

\* What an async function settles with.
Value(v) == [kind |-> "value", value |-> v, name |-> "", status |-> 0, body |-> ""]
Thrown(n, s, b) ==
    [kind |-> "throw", value |-> [none |-> TRUE], name |-> n, status |-> s, body |-> b]

----------------------------------------------------------------------------
(* Text.  A string is the sequence of its characters; a character is a   *)
(* one-character string, or "U+00E9" for the letter e with acute accent. *)

\* String.prototype.charCodeAt: the UTF-16 code unit of a character
Code ==
    "a" :> 97 @@ "b" :> 98 @@ "c" :> 99 @@ "d" :> 100 @@ "e" :> 101 @@ "f" :>
    102 @@ "g" :> 103 @@ "h" :> 104 @@ "i" :> 105 @@ "j" :> 106 @@ "k" :> 107
    @@ "l" :> 108 @@ "m" :> 109 @@ "n" :> 110 @@ "o" :> 111 @@ "p" :> 112 @@
    "q" :> 113 @@ "r" :> 114 @@ "s" :> 115 @@ "t" :> 116 @@ "u" :> 117 @@ "v"
    :> 118 @@ "w" :> 119 @@ "x" :> 120 @@ "y" :> 121 @@ "z" :> 122 @@ "A" :>
    65 @@ "B" :> 66 @@ "C" :> 67 @@ "D" :> 68 @@ "E" :> 69 @@ "F" :> 70 @@ "G"
    :> 71 @@ "H" :> 72 @@ "I" :> 73 @@ "J" :> 74 @@ "K" :> 75 @@ "L" :> 76 @@
    "M" :> 77 @@ "N" :> 78 @@ "O" :> 79 @@ "P" :> 80 @@ "Q" :> 81 @@ "R" :> 82
    @@ "S" :> 83 @@ "T" :> 84 @@ "U" :> 85 @@ "V" :> 86 @@ "W" :> 87 @@ "X" :>
    88 @@ "Y" :> 89 @@ "Z" :> 90 @@ "0" :> 48 @@ "1" :> 49 @@ "2" :> 50 @@ "3"
    :> 51 @@ "4" :> 52 @@ "5" :> 53 @@ "6" :> 54 @@ "7" :> 55 @@ "8" :> 56 @@
    "9" :> 57 @@ "-" :> 45 @@ "." :> 46 @@ "_" :> 95 @@ "~" :> 126 @@ "!" :>
    33 @@ "*" :> 42 @@ "'" :> 39 @@ "(" :> 40 @@ ")" :> 41 @@ " " :> 32 @@ "%"
    :> 37 @@ "=" :> 61 @@ "&" :> 38 @@ "+" :> 43 @@ "/" :> 47 @@ ":" :> 58 @@
    "," :> 44 @@ "?" :> 63 @@ "#" :> 35 @@ "U+00E9" :> 233

Chars == DOMAIN Code

Lower == {"a", "b", "c", "d", "e", "f", "g", "h", "i", "j", "k", "l", "m", "n", "o",
          "p", "q", "r", "s", "t", "u", "v", "w", "x", "y", "z"}
Upper == {"A", "B", "C", "D", "E", "F", "G", "H", "I", "J", "K", "L", "M", "N", "O",
          "P", "Q", "R", "S", "T", "U", "V", "W", "X", "Y", "Z"}
Digit == {"0", "1", "2", "3", "4", "5", "6", "7", "8", "9"}

\* The characters encodeURIComponent leaves as they are (ECMA-262 uriUnescaped)
UriUnescaped == Lower \cup Upper \cup Digit \cup {"-", "_", ".", "!", "~", "*", "'", "(", ")"}

HexDigits == <<"0", "1", "2", "3", "4", "5", "6", "7", "8", "9", "A", "B", "C", "D", "E", "F">>

\* The octets of a UTF-16 code unit (no surrogates) in UTF-8
Utf8(n) ==
    IF n < 128 THEN <<n>>
    ELSE IF n < 2048 THEN <<192 + (n \div 64), 128 + (n % 64)>>
    ELSE <<224 + (n \div 4096), 128 + ((n \div 64) % 64), 128 + (n % 64)>>

\* encodeURIComponent's escape of one octet
PercentOctet(b) == <<"%", HexDigits[(b \div 16) + 1], HexDigits[(b % 16) + 1]>>

RECURSIVE PercentOctets(_)
PercentOctets(bs) ==
    IF bs = <<>> THEN <<>> ELSE PercentOctet(Head(bs)) \o PercentOctets(Tail(bs))

\* encodeURIComponent, character by character: the halves of a string are
\* encoded apart
RECURSIVE encodeURIComponent(_)
encodeURIComponent(s) ==
    IF s = <<>> THEN <<>>
    ELSE IF Len(s) = 1
    THEN (IF s[1] \in UriUnescaped THEN s ELSE PercentOctets(Utf8(Code[s[1]])))
    ELSE encodeURIComponent(SubSeq(s, 1, Len(s) \div 2))
         \o encodeURIComponent(SubSeq(s, Len(s) \div 2 + 1, Len(s)))

\* Number.prototype.toString(16) and toUpperCase()
RECURSIVE toString16Upper(_)
toString16Upper(n) ==
    IF n < 16 THEN <<HexDigits[n + 1]>>
    ELSE toString16Upper(n \div 16) \o <<HexDigits[(n % 16) + 1]>>

\* .replace(/[!'()*]/g, c => "%" + c.charCodeAt(0).toString(16).toUpperCase())
RECURSIVE replaceReserved(_)
replaceReserved(s) ==
    IF s = <<>> THEN <<>>
    ELSE IF Len(s) = 1
    THEN (IF s[1] \in {"!", "'", "(", ")", "*"}
          THEN <<"%">> \o toString16Upper(Code[s[1]])
          ELSE s)
    ELSE replaceReserved(SubSeq(s, 1, Len(s) \div 2))
         \o replaceReserved(SubSeq(s, Len(s) \div 2 + 1, Len(s)))

enc_NoReplace(s) == encodeURIComponent(s)

\* function enc(str) of the server
enc(s) == replaceReserved(encodeURIComponent(s))

\* function enc(str) of setup.js
setup_enc(s) == replaceReserved(encodeURIComponent(s))

----------------------------------------------------------------------------
(* Objects: the own keys in insertion order, each with its value *)

HasKey(obj, k) == \E i \in DOMAIN obj : obj[i][1] = k

\* obj[k]
Prop(obj, k) == obj[CHOOSE i \in DOMAIN obj : obj[i][1] = k][2]

\* obj[k] = v: a key the object has keeps its place
Assign(obj, k, v) ==
    IF HasKey(obj, k)
    THEN [i \in DOMAIN obj |-> IF obj[i][1] = k THEN <<k, v>> ELSE obj[i]]
    ELSE Append(obj, <<k, v>>)

\* { ...obj, ...src }
RECURSIVE Spread(_, _)
Spread(obj, src) ==
    IF src = <<>> THEN obj
    ELSE Spread(Assign(obj, Head(src)[1], Head(src)[2]), Tail(src))

\* Object.keys(obj)
ObjectKeys(obj) == [i \in DOMAIN obj |-> obj[i][1]]

\* x sorts before y: the default comparison of Array.prototype.sort, by
\* UTF-16 code units
Before(x, y) ==
    \E i \in 1..(Len(x) + 1) :
        /\ i <= Len(y)
        /\ \A j \in 1..(i - 1) : x[j] = y[j]
        /\ (i = Len(x) + 1 \/ Code[x[i]] < Code[y[i]])

RECURSIVE Insert(_, _)
Insert(k, sorted) ==
    IF sorted = <<>> THEN <<k>>
    ELSE IF Before(k, Head(sorted)) THEN <<k>> \o sorted
    ELSE <<Head(sorted)>> \o Insert(k, Tail(sorted))

Sort_Unsorted(keys) == keys

\* keys.sort()
RECURSIVE Sort(_)
Sort(keys) == IF keys = <<>> THEN <<>> ELSE Insert(Head(keys), Sort(Tail(keys)))

\* parts.join(sep)
RECURSIVE Join(_, _)
Join(parts, sep) ==
    IF parts = <<>> THEN <<>>
    ELSE IF Len(parts) = 1 THEN parts[1]
    ELSE parts[1] \o sep \o Join(Tail(parts), sep)

----------------------------------------------------------------------------
(* OAuth 1.0a signing *)

oauth_consumer_key == <<"o", "a", "u", "t", "h", "_", "c", "o", "n", "s", "u", "m", "e", "r", "_", "k", "e", "y">>
oauth_nonce == <<"o", "a", "u", "t", "h", "_", "n", "o", "n", "c", "e">>
oauth_signature_method == <<"o", "a", "u", "t", "h", "_", "s", "i", "g", "n", "a", "t", "u", "r", "e", "_", "m", "e", "t", "h", "o", "d">>
oauth_timestamp == <<"o", "a", "u", "t", "h", "_", "t", "i", "m", "e", "s", "t", "a", "m", "p">>
oauth_token == <<"o", "a", "u", "t", "h", "_", "t", "o", "k", "e", "n">>
oauth_version == <<"o", "a", "u", "t", "h", "_", "v", "e", "r", "s", "i", "o", "n">>

\* The credentials a signing run is given
ConsumerKey == <<"c", "k">>
Token == <<"t", "k">>

\* const oauthParams of oauthSign
oauthParams(ts, nonce) ==
    << <<oauth_consumer_key, ConsumerKey>>,
       <<oauth_nonce, nonce>>,
       <<oauth_signature_method, <<"H", "M", "A", "C", "-", "S", "H", "A", "1">>>>,
       <<oauth_timestamp, ts>>,
       <<oauth_token, Token>>,
       <<oauth_version, <<"1", ".", "0">>>> >>

\* const all = { ...oauthParams, ...queryParams }
all(oauthP, queryP) == Spread(oauthP, queryP)

\* Object.keys(all).sort().map(k => `${enc(k)}=${enc(all[k])}`).join("&")
paramStr(allP) ==
    LET keys == Sort(ObjectKeys(allP))
    IN  Join([i \in DOMAIN keys |-> enc(keys[i]) \o <<"=">> \o enc(Prop(allP, keys[i]))],
             <<"&">>)

\* xapiAuth: for (const [k, v] of urlObj.searchParams) queryParams[k] = v
queryParams(searchParams) == Spread(<<>>, searchParams)

\* const oauthParams of sign in setup.js: { oauth_consumer_key, ..., ...params }
setup_oauthParams(ts, nonce, params) ==
    Spread(<< <<oauth_consumer_key, ConsumerKey>>,
              <<oauth_nonce, nonce>>,
              <<oauth_signature_method, <<"H", "M", "A", "C", "-", "S", "H", "A", "1">>>>,
              <<oauth_timestamp, ts>>,
              <<oauth_version, <<"1", ".", "0">>>> >>,
           params)

\* const all = { ...oauthParams } and const paramStr of sign in setup.js
setup_paramStr(oauthP) ==
    LET allP == Spread(<<>>, oauthP)
        keys == Sort(ObjectKeys(allP))
    IN  Join([i \in DOMAIN keys |->
                 setup_enc(keys[i]) \o <<"=">> \o setup_enc(Prop(allP, keys[i]))],
             <<"&">>)

\* String.prototype.toUpperCase, of ASCII letters
UpperOf == [c \in Chars |-> IF c \in Lower THEN CHOOSE u \in Upper : Code[u] = Code[c] - 32
                            ELSE c]
toUpperCase(s) == [i \in DOMAIN s |-> UpperOf[s[i]]]

\* String.prototype.indexOf of one character, counted from 1; 0 when absent
IndexOf(s, ch) ==
    IF \E i \in DOMAIN s : s[i] = ch
    THEN CHOOSE i \in DOMAIN s : s[i] = ch /\ \A j \in 1..(i - 1) : s[j] # ch
    ELSE 0

RECURSIVE Split(_, _)
Split(s, ch) ==
    LET i == IndexOf(s, ch) IN
    IF i = 0 THEN <<s>>
    ELSE <<SubSeq(s, 1, i - 1)>> \o Split(SubSeq(s, i + 1, Len(s)), ch)

oauth_signature == <<"o", "a", "u", "t", "h", "_", "s", "i", "g", "n", "a", "t", "u", "r", "e">>
oauth_callback == <<"o", "a", "u", "t", "h", "_", "c", "a", "l", "l", "b", "a", "c", "k">>
oauth_verifier == <<"o", "a", "u", "t", "h", "_", "v", "e", "r", "i", "f", "i", "e", "r">>

\* The secrets a signing run is given
ConsumerSecret == <<"c", "s">>
TokenSecret == <<"t", "s">>

\* const baseStr of oauthSign
baseStr(method, url, pStr) ==
    toUpperCase(method) \o <<"&">> \o enc(url) \o <<"&">> \o enc(pStr)

\* const signingKey of oauthSign
signingKey == enc(ConsumerSecret) \o <<"&">> \o enc(TokenSecret)

\* createHmac("sha1", key).update(data).digest("base64"): HMAC-SHA1 taken
\* as a free function, a digest written as the key and the data it was
\* computed from ("+" occurs in neither)
createHmac(key, data) == key \o <<"+">> \o data

\* const sig of oauthSign
sig(method, url, queryP, ts, nonce) ==
    createHmac(signingKey,
               baseStr(method, url, paramStr(all(oauthParams(ts, nonce), queryP))))

\* "OAuth " + Object.keys(oauthParams).sort().map(k => `${enc(k)}="${enc(...)}"`).join(", ")
header(oauthP) ==
    LET keys == Sort(ObjectKeys(oauthP))
    IN  <<"O", "A", "u", "t", "h", " ">> \o
        Join([i \in DOMAIN keys |->
                 enc(keys[i]) \o <<"=", "\"">> \o enc(Prop(oauthP, keys[i])) \o <<"\"">>],
             <<",", " ">>)

\* The signed calls of a signing run that are made
Made == {l \in {"A", "B"} : signed[l].via # "none"}

oauthSign_CountsCalls(method, url, queryP, ts, nonce) ==
    header(Assign(oauthParams(ts, nonce), oauth_signature,
                  sig(method, url, queryP, ts, nonce)
                      \o (IF Made = {} THEN <<>> ELSE <<"1">>)))

\* function oauthSign(method, url, queryParams), with the ts and the nonce
\* it draws
oauthSign(method, url, queryP, ts, nonce) ==
    header(Assign(oauthParams(ts, nonce), oauth_signature,
                  sig(method, url, queryP, ts, nonce)))

\* new URL(u): origin + pathname, search without its "?", and the hash, of
\* a URL whose path needs no normalisation
urlObj(u) ==
    LET h == IndexOf(u, "#")
        noHash == IF h = 0 THEN u ELSE SubSeq(u, 1, h - 1)
        q == IndexOf(noHash, "?")
    IN  [originPathname |-> IF q = 0 THEN noHash ELSE SubSeq(noHash, 1, q - 1),
         search |-> IF q = 0 THEN <<>> ELSE SubSeq(noHash, q + 1, Len(noHash)),
         hash |-> IF h = 0 THEN <<>> ELSE SubSeq(u, h, Len(u))]

IsHex(c) == \E i \in 1..16 : HexDigits[i] = UpperOf[c]
HexVal(c) == (CHOOSE i \in 1..16 : HexDigits[i] = UpperOf[c]) - 1

\* The decoding of a name or a value by URLSearchParams: "+" is a space,
\* %XX the ASCII character of that code
RECURSIVE percentDecode(_)
percentDecode(s) ==
    IF s = <<>> THEN <<>>
    ELSE IF Head(s) = "+" THEN <<" ">> \o percentDecode(Tail(s))
    ELSE IF /\ Head(s) = "%"
            /\ Len(s) >= 3
            /\ IsHex(s[2])
            /\ IsHex(s[3])
            /\ \E c \in Chars : Code[c] = 16 * HexVal(s[2]) + HexVal(s[3])
    THEN <<CHOOSE c \in Chars : Code[c] = 16 * HexVal(s[2]) + HexVal(s[3])>>
         \o percentDecode(SubSeq(s, 4, Len(s)))
    ELSE <<Head(s)>> \o percentDecode(Tail(s))

\* urlObj.searchParams: the pairs of the search string, in its order
searchParams(search) ==
    LET parts == SelectSeq(Split(search, "&"), LAMBDA x : x # <<>>)
    IN  [i \in DOMAIN parts |->
            LET e == IndexOf(parts[i], "=") IN
            IF e = 0 THEN <<percentDecode(parts[i]), <<>>>>
            ELSE <<percentDecode(SubSeq(parts[i], 1, e - 1)),
                   percentDecode(SubSeq(parts[i], e + 1, Len(parts[i])))>>]

\* JSON.stringify of an object of strings
JSONstringify(body) ==
    <<"{">> \o
    Join([i \in DOMAIN body |->
             <<"\"">> \o body[i][1] \o <<"\"", ":", "\"">> \o body[i][2] \o <<"\"">>],
         <<",">>)
    \o <<"}">>

\* const url of xapiUpload
upload_url ==
    <<"h", "t", "t", "p", "s", ":", "/", "/", "u", "p", "l", "o", "a", "d", ".", "x", ".", "c",
      "o", "m", "/", "2", "/", "m", "e", "d", "i", "a", "/", "u", "p", "l", "o", "a", "d">>
GET == <<"G", "E", "T">>
POST == <<"P", "O", "S", "T">>
PUT == <<"P", "U", "T">>
DELETE == <<"D", "E", "L", "E", "T", "E">>

\* const isV1, const base and const fullUrl of xapiAuth
isV1(endpoint) == Len(endpoint) >= 5 /\ SubSeq(endpoint, 1, 5) = <<"/", "1", ".", "1", "/">>
base(endpoint) ==
    IF isV1(endpoint)
    THEN
      <<"h", "t", "t", "p", "s", ":", "/", "/", "a", "p", "i", ".", "x", ".", "c", "o", "m">>
    ELSE
      <<"h", "t", "t", "p", "s", ":", "/", "/", "a", "p", "i", ".", "x", ".", "c", "o", "m",
        "/", "2">>
fullUrl(endpoint) == base(endpoint) \o endpoint

\* No call
NoRun == [via |-> "none"]

\* What a signed dispatcher computes and hands to fetch
Run(via, method, url, queryP, ts, nonce, fetchUrl, body) ==
    [via |-> via, method |-> method, url |-> url, queryParams |-> queryP,
     ts |-> ts, nonce |-> nonce, key |-> signingKey,
     baseStr |-> baseStr(method, url, paramStr(all(oauthParams(ts, nonce), queryP))),
     sig |-> sig(method, url, queryP, ts, nonce),
     header |-> oauthSign(method, url, queryP, ts, nonce),
     fetchUrl |-> fetchUrl, body |-> body]

xapiAuth_SignsBody(method, endpoint, body, ts, nonce) ==
    LET u == urlObj(fullUrl(endpoint))
    IN  Run("xapiAuth", method, u.originPathname,
            Spread(queryParams(searchParams(u.search)), body), ts, nonce,
            fullUrl(endpoint),
            IF body # <<>> /\ method \in {POST, PUT}
            THEN JSONstringify(body) ELSE <<>>)

\* async function xapiAuth(method, endpoint, body) up to fetch(fullUrl, opts)
xapiAuth(method, endpoint, body, ts, nonce) ==
    LET u == urlObj(fullUrl(endpoint))
    IN  Run("xapiAuth", method, u.originPathname,
            queryParams(searchParams(u.search)), ts, nonce,
            fullUrl(endpoint),
            IF body # <<>> /\ method \in {POST, PUT}
            THEN JSONstringify(body) ELSE <<>>)

\* async function xapiUpload(formData) up to fetch(url, ...)
xapiUpload(formData, ts, nonce) ==
    Run("xapiUpload", POST, upload_url, <<>>, ts, nonce, upload_url, formData)

\* function sign(method, url, params, tokenSecret = "") of setup.js, with
\* the ts and the nonce it draws, and the fetch that follows
setup_sign(method, url, params, tokenSecret, ts, nonce) ==
    LET oauthP == setup_oauthParams(ts, nonce, params)
        bs == method \o <<"&">> \o setup_enc(url) \o <<"&">>
                  \o setup_enc(setup_paramStr(oauthP))
        k == setup_enc(ConsumerSecret) \o <<"&">> \o setup_enc(tokenSecret)
        signedP == Assign(oauthP, oauth_signature, createHmac(k, bs))
        keys == Sort(ObjectKeys(signedP))
    IN  [via |-> "sign", method |-> method, url |-> url, queryParams |-> params,
         ts |-> ts, nonce |-> nonce, key |-> k,
         baseStr |-> bs,
         sig |-> createHmac(k, bs),
         header |-> <<"O", "A", "u", "t", "h", " ">> \o
             Join([i \in DOMAIN keys |->
                      setup_enc(keys[i]) \o <<"=", "\"">>
                          \o setup_enc(Prop(signedP, keys[i])) \o <<"\"">>],
                  <<",", " ">>),
         fetchUrl |-> url, body |-> <<>>]

----------------------------------------------------------------------------
(* Auth config *)

BEARER_TOKEN == env.X_BEARER_TOKEN

OAUTH == [consumerKey    |-> env.X_API_KEY,
          consumerSecret |-> env.X_API_SECRET,
          token          |-> env.X_ACCESS_TOKEN,
          tokenSecret    |-> env.X_ACCESS_TOKEN_SECRET]

HAS_OAUTH_AnyKey ==
    OAUTH.consumerKey # "" \/ OAUTH.consumerSecret # ""
    \/ OAUTH.token # "" \/ OAUTH.tokenSecret # ""

HAS_OAUTH ==
    OAUTH.consumerKey # "" /\ OAUTH.consumerSecret # ""
    /\ OAUTH.token # "" /\ OAUTH.tokenSecret # ""

----------------------------------------------------------------------------
(* The tools *)

\* Tools 1-17: name and the endpoint handed to xapi ({arg} is the input).
BearerTools == <<
    [name |-> "search_tweets",             path |-> <<"tweets", "search", "recent">>],
    [name |-> "get_user_profile",          path |-> <<"users", "by", "username", "{arg}">>],
    [name |-> "get_user_tweets",           path |-> <<"users", "{arg}", "tweets">>],
    [name |-> "get_tweet_replies",         path |-> <<"tweets", "search", "recent">>],
    [name |-> "get_tweet",                 path |-> <<"tweets", "{arg}">>],
    [name |-> "get_user_followers",        path |-> <<"users", "{arg}", "followers">>],
    [name |-> "get_user_following",        path |-> <<"users", "{arg}", "following">>],
    [name |-> "get_liking_users",          path |-> <<"tweets", "{arg}", "liking_users">>],
    [name |-> "get_trending_topics",       path |-> <<"trends", "by", "woeid", "{arg}">>],
    [name |-> "get_community",             path |-> <<"communities", "{arg}">>],
    [name |-> "search_communities",        path |-> <<"communities", "search">>],
    [name |-> "get_news",                  path |-> <<"news", "{arg}">>],
    [name |-> "get_api_usage",             path |-> <<"usage", "tweets">>],
    [name |-> "get_list",                  path |-> <<"lists", "{arg}">>],
    [name |-> "get_user_lists",            path |-> <<"users", "{arg}", "owned_lists">>],
    [name |-> "get_list_members",          path |-> <<"lists", "{arg}", "members">>],
    [name |-> "get_user_list_memberships", path |-> <<"users", "{arg}", "list_memberships">>] >>

\* Tools 18-31, inside if (HAS_OAUTH): the dispatcher, the method, whether
\* the handler awaits getMyUserId() first, the endpoint ({me} is the caller's
\* id, {arg} the input), whether the endpoint carries a query string, and
\* whether a body object is passed.
OAuthTools == <<
    [name |-> "get_my_profile",     disp |-> "xapiAuth",   method |-> "GET",    me |-> FALSE,
     path |-> <<"users", "me">>,                              query |-> TRUE,  body |-> FALSE],
    [name |-> "get_user_mentions",  disp |-> "xapiAuth",   method |-> "GET",    me |-> FALSE,
     path |-> <<"users", "{arg}", "mentions">>,               query |-> TRUE,  body |-> FALSE],
    [name |-> "get_quote_tweets",   disp |-> "xapiAuth",   method |-> "GET",    me |-> FALSE,
     path |-> <<"tweets", "{arg}", "quote_tweets">>,          query |-> TRUE,  body |-> FALSE],
    [name |-> "get_bookmarks",      disp |-> "xapiAuth",   method |-> "GET",    me |-> TRUE,
     path |-> <<"users", "{me}", "bookmarks">>,               query |-> TRUE,  body |-> FALSE],
    [name |-> "upload_media",       disp |-> "xapiUpload", method |-> "POST",   me |-> FALSE,
     path |-> <<"media", "upload">>,                          query |-> FALSE, body |-> TRUE],
    [name |-> "create_post",        disp |-> "xapiAuth",   method |-> "POST",   me |-> FALSE,
     path |-> <<"tweets">>,                                   query |-> FALSE, body |-> TRUE],
    [name |-> "delete_post",        disp |-> "xapiAuth",   method |-> "DELETE", me |-> FALSE,
     path |-> <<"tweets", "{arg}">>,                          query |-> FALSE, body |-> FALSE],
    [name |-> "create_list",        disp |-> "xapiAuth",   method |-> "POST",   me |-> FALSE,
     path |-> <<"lists">>,                                    query |-> FALSE, body |-> TRUE],
    [name |-> "update_list",        disp |-> "xapiAuth",   method |-> "PUT",    me |-> FALSE,
     path |-> <<"lists", "{arg}">>,                           query |-> FALSE, body |-> TRUE],
    [name |-> "delete_list",        disp |-> "xapiAuth",   method |-> "DELETE", me |-> FALSE,
     path |-> <<"lists", "{arg}">>,                           query |-> FALSE, body |-> FALSE],
    [name |-> "add_list_member",    disp |-> "xapiAuth",   method |-> "POST",   me |-> FALSE,
     path |-> <<"lists", "{arg}", "members">>,                query |-> FALSE, body |-> TRUE],
    [name |-> "remove_list_member", disp |-> "xapiAuth",   method |-> "DELETE", me |-> FALSE,
     path |-> <<"lists", "{arg}", "members", "{arg}">>,       query |-> FALSE, body |-> FALSE],
    [name |-> "pin_list",           disp |-> "xapiAuth",   method |-> "POST",   me |-> TRUE,
     path |-> <<"users", "{me}", "pinned_lists">>,            query |-> FALSE, body |-> TRUE],
    [name |-> "unpin_list",         disp |-> "xapiAuth",   method |-> "DELETE", me |-> TRUE,
     path |-> <<"users", "{me}", "pinned_lists", "{arg}">>,   query |-> FALSE, body |-> FALSE] >>

\* const toggleTools: [name, method, pathFn (with {me} for its argument and
\* the literal {id} it leaves for replace), paramName, whether bodyFn is set].
toggleTools == <<
    <<"like_post",       "POST",   <<"users", "{me}", "likes">>,              "tweet_id",       TRUE>>,
    <<"unlike_post",     "DELETE", <<"users", "{me}", "likes", "{id}">>,      "tweet_id",       FALSE>>,
    <<"repost",          "POST",   <<"users", "{me}", "retweets">>,           "tweet_id",       TRUE>>,
    <<"unrepost",        "DELETE", <<"users", "{me}", "retweets", "{id}">>,   "tweet_id",       FALSE>>,
    <<"follow_user",     "POST",   <<"users", "{me}", "following">>,          "target_user_id", TRUE>>,
    <<"unfollow_user",   "DELETE", <<"users", "{me}", "following", "{id}">>,  "target_user_id", FALSE>>,
    <<"bookmark_post",   "POST",   <<"users", "{me}", "bookmarks">>,          "tweet_id",       TRUE>>,
    <<"unbookmark_post", "DELETE", <<"users", "{me}", "bookmarks", "{id}">>,  "tweet_id",       FALSE>>,
    <<"block_user",      "POST",   <<"users", "{me}", "blocking">>,           "target_user_id", TRUE>>,
    <<"unblock_user",    "DELETE", <<"users", "{me}", "blocking", "{id}">>,   "target_user_id", FALSE>>,
    <<"mute_user",       "POST",   <<"users", "{me}", "muting">>,             "target_user_id", TRUE>>,
    <<"unmute_user",     "DELETE", <<"users", "{me}", "muting", "{id}">>,     "target_user_id", FALSE>> >>

Range(seq) == {seq[i] : i \in DOMAIN seq}

BearerNames == {t.name : t \in Range(BearerTools)}
OAuthNames  == {t.name : t \in Range(OAuthTools)}
ToggleNames == {t[1] : t \in Range(toggleTools)}

\* A name no version of the server declares
UnknownName == "no_such_tool"

\* The names a client asks for: one tool of every handler shape (a bearer
\* GET with and without an input, a signed GET, POST, PUT and DELETE, the
\* upload, the tools that await getMyUserId() first, two toggle pairs) and
\* a name that is never declared.  Registration covers every tool.
CallNames ==
    {"search_tweets", "get_user_tweets",
     "get_my_profile", "get_bookmarks", "upload_media", "create_post", "delete_post",
     "update_list", "pin_list", "unpin_list",
     "like_post", "unlike_post", "follow_user", "unfollow_user",
     UnknownName}

RegisteredNames == Range(registered)

----------------------------------------------------------------------------
(* Requests *)

NoBody == <<>>

\* Template interpolation of ${myId} and of the handler's input
Interpolate(path, me, arg) ==
    [i \in DOMAIN path |->
        IF path[i] = "{me}" THEN me ELSE IF path[i] = "{arg}" THEN arg ELSE path[i]]

\* String.prototype.replace with a string pattern: the first occurrence only
Replace(path, pat, val) ==
    IF \E i \in DOMAIN path : path[i] = pat
    THEN LET first == CHOOSE i \in DOMAIN path :
                          path[i] = pat /\ \A j \in 1..(i - 1) : path[j] # pat
         IN  [path EXCEPT ![first] = val]
    ELSE path

\* The request xapi hands to fetch
xapiRequest(path) ==
    [disp |-> "xapi", method |-> "GET", host |-> "https://api.x.com/2", path |-> path,
     auth |-> "Bearer", body |-> NoBody]

\* The request xapiAuth hands to fetch: signed, with the body attached for
\* POST and PUT only
xapiAuthRequest(method, path, body) ==
    [disp |-> "xapiAuth", method |-> method,
     host |-> IF Len(path) > 0 /\ path[1] = "1.1" THEN "https://api.x.com"
              ELSE "https://api.x.com/2",
     path |-> path, auth |-> "OAuth",
     body |-> IF body # NoBody /\ method \in {"POST", "PUT"} THEN body ELSE NoBody]

\* The request xapiUpload hands to fetch
xapiUploadRequest(formData) ==
    [disp |-> "xapiUpload", method |-> "POST", host |-> "https://upload.x.com/2",
     path |-> <<"media", "upload">>, auth |-> "OAuth", body |-> formData]

\* upload_media's plain fetch(media_url)
DownloadRequest ==
    [disp |-> "fetch", method |-> "GET", host |-> "media_url", path |-> <<>>,
     auth |-> "none", body |-> NoBody]

\* getMyUserId's lookup
MeRequest == xapiAuthRequest("GET", <<"users", "me">>, NoBody)

----------------------------------------------------------------------------
(* Dispatchers: what each settles with on a response *)

ResJson(res) ==
    IF JsonParses(res.body) THEN Value(JsonValue(res.body))
    ELSE Thrown("SyntaxError", 0, "")

xapiOutcome_NoCheck(res) == ResJson(res)

xapiOutcome(res) ==
    IF ~ResOk(res) THEN Thrown("X API", res.status, res.body)
    ELSE ResJson(res)

xapiAuthOutcome_No204(res) ==
    IF ~ResOk(res) THEN Thrown("X API", res.status, res.body)
    ELSE ResJson(res)

xapiAuthOutcome(res) ==
    IF res.status = 204 THEN Value([success |-> TRUE])
    ELSE IF ~ResOk(res) THEN Thrown("X API", res.status, res.body)
    ELSE ResJson(res)

xapiUploadOutcome(res) ==
    IF ~ResOk(res) THEN Thrown("X API upload", res.status, res.body)
    ELSE ResJson(res)

DispatchOutcome(disp, res) ==
    CASE disp = "xapi"       -> xapiOutcome(res)
      [] disp = "xapiAuth"   -> xapiAuthOutcome(res)
      [] disp = "xapiUpload" -> xapiUploadOutcome(res)

\* getMyUserId after its await: data.data.id, a TypeError when data has no
\* data member
getMyUserIdOutcome(res) ==
    LET d == xapiAuthOutcome(res) IN
    IF d.kind = "throw" THEN d
    ELSE IF "data" \notin DOMAIN d.value THEN Thrown("TypeError", 0, "")
    ELSE Value(d.value.data.id)

----------------------------------------------------------------------------
(* Handlers *)

ToolOf(seq, name) == CHOOSE t \in Range(seq) : t.name = name
ToggleOf(name) == CHOOSE t \in Range(toggleTools) : t[1] = name

NeedsMe(name) ==
    \/ name \in ToggleNames
    \/ name \in OAuthNames /\ ToolOf(OAuthTools, name).me

\* The request a handler makes once it has what it awaits first
OwnRequest(name, me, id) ==
    IF name \in BearerNames
    THEN xapiRequest(Interpolate(ToolOf(BearerTools, name).path, me, id))
    ELSE IF name \in ToggleNames
    THEN LET t == ToggleOf(name)
             path == Replace(Interpolate(t[3], me, id), "{id}", id)
             body == IF t[5] THEN <<t[4], id>> ELSE NoBody
         IN  xapiAuthRequest(t[2], path, body)
    ELSE LET t == ToolOf(OAuthTools, name)
             body == IF t.body THEN <<"json">> ELSE NoBody
         IN  IF t.disp = "xapiUpload" THEN xapiUploadRequest(<<"formData">>)
             ELSE xapiAuthRequest(t.method, Interpolate(t.path, me, id), body)

Idle == [tool |-> "", id |-> "", pc |-> "idle", sent |-> <<>>, resps |-> <<>>]

NoResult == [kind |-> "none", value |-> [none |-> TRUE], name |-> "", status |-> 0,
             body |-> ""]

\* What the SDK answers for a name that was never registered
UnknownTool == [kind |-> "unknown", value |-> [none |-> TRUE], name |-> "Tool not found",
                status |-> 0, body |-> ""]

NoReturn == [tool |-> "", id |-> "", stage |-> "", sent |-> <<>>, resps |-> <<>>,
             result |-> NoResult]

\* The settled call: the stage it ended in, what it sent and received
Return(c, resps, result) ==
    [tool |-> c.tool, id |-> c.id, stage |-> c.pc, sent |-> c.sent, resps |-> resps,
     result |-> result]

----------------------------------------------------------------------------
(* Start of the process *)

Envs == [X_BEARER_TOKEN : EnvValues, X_API_KEY : EnvValues, X_API_SECRET : EnvValues,
         X_ACCESS_TOKEN : EnvValues, X_ACCESS_TOKEN_SECRET : EnvValues]

NoCreds == [X_ACCESS_TOKEN |-> "", X_ACCESS_TOKEN_SECRET |-> "", screenName |-> "",
            userId |-> "", printed |-> FALSE]

\* The two scripts that sign, and the parameter lists of a signing run
Scripts == {"server", "setup"}
Lists == {"A", "B"}

\* Not computed yet
Pending == <<"pending">>

\* No signing run
NoSigning ==
    /\ task = "none"
    /\ str = <<>>
    /\ encoded = [s \in Scripts |-> Pending]
    /\ rnd = [ts |-> <<>>, nonce |-> <<>>]
    /\ queryA = <<>>
    /\ queryB = <<>>
    /\ built = [l \in Lists |-> [s \in Scripts |-> Pending]]
    /\ signed = [l \in Lists |-> NoRun]

\* What setup.js reported on stderr before it failed
NoErr == [kind |-> "none", status |-> 0, body |-> <<>>]
Failure(kind, status, body) == [kind |-> kind, status |-> status, body |-> body]

Init ==
    /\ entry \in {"server", "setup"}
    /\ argv \in {{}, {"--setup"}}
    /\ env \in Envs
    /\ pc = IF entry = "server" THEN "start" ELSE "setup"
    /\ exitCode = Running
    /\ registered = <<>>
    /\ connected = FALSE
    /\ toolCount = 0
    /\ stderr = <<>>
    /\ _myUserId = NULL
    /\ calls = [s \in Slots |-> Idle]
    /\ returned = NoReturn
    /\ lookups = 0
    /\ fpc = IF entry = "server" THEN "notrun" ELSE "envCheck"
    /\ flowSent = <<>>
    /\ oauthToken = NULL
    /\ oauthTokenSecret = NULL
    /\ browser = "none"
    /\ listener = "none"
    /\ promise = "none"
    /\ verifier = NULL
    /\ timer = "none"
    /\ elapsed = 0
    /\ keepAlive = FALSE
    /\ callbacks = 0
    /\ stdout = NoCreds
    /\ flowErr = NoErr
    /\ NoSigning

\* process.exit(code), or the exit node makes on an uncaught rejection
Exit(code) ==
    /\ pc' = "exited"
    /\ exitCode' = code

----------------------------------------------------------------------------
(* The server script, top level *)

\* if (process.argv.includes("--setup")) { await import("setup.js"); ... }
SetupMode ==
    /\ pc = "start"
    /\ "--setup" \in argv
    /\ pc' = "setup"
    /\ fpc' = "envCheck"
    /\ UNCHANGED <<procVars, exitCode, srvVars, flowSent, oauthToken, oauthTokenSecret,
                   browser, listener, promise, verifier, timer, elapsed, keepAlive, callbacks,
                   stdout, flowErr>>

SetupModeExit_FallsThrough ==
    /\ pc = "setup"
    /\ entry = "server"
    /\ fpc = "done"
    /\ pc' = "registerBearer"
    /\ UNCHANGED <<procVars, exitCode, srvVars, flowVars>>

\* ... process.exit(0) once the import has settled
SetupModeExit ==
    /\ pc = "setup"
    /\ entry = "server"
    /\ fpc = "done"
    /\ Exit(0)
    /\ UNCHANGED <<procVars, srvVars, flowVars>>

AuthConfig_NoExit ==
    /\ pc = "start"
    /\ "--setup" \notin argv
    /\ stderr' = IF BEARER_TOKEN = ""
                 THEN Append(stderr, "X_BEARER_TOKEN environment variable is required")
                 ELSE stderr
    /\ pc' = "registerBearer"
    /\ UNCHANGED <<procVars, exitCode, registered, connected, toolCount, _myUserId,
                   calls, returned, lookups, flowVars>>

\* const BEARER_TOKEN = ...; if (!BEARER_TOKEN) { console.error; process.exit(1) }
AuthConfig ==
    /\ pc = "start"
    /\ "--setup" \notin argv
    /\ IF BEARER_TOKEN = ""
       THEN /\ stderr' = Append(stderr, "X_BEARER_TOKEN environment variable is required")
            /\ Exit(1)
       ELSE /\ pc' = "registerBearer"
            /\ UNCHANGED <<stderr, exitCode>>
    /\ UNCHANGED <<procVars, registered, connected, toolCount, _myUserId, calls,
                   returned, lookups, flowVars>>

\* server.tool(name, ...)
ServerTool(name) == registered' = Append(registered, name)

RegisterBearerTool_NoGate ==
    /\ pc = "registerBearer"
    /\ LET i == Len(registered) + 1 IN
       /\ ServerTool(BearerTools[i].name)
       /\ pc' = IF i < Len(BearerTools) THEN "registerBearer" ELSE "registerOAuth"
    /\ UNCHANGED <<procVars, exitCode, connected, toolCount, stderr, _myUserId, calls,
                   returned, lookups, flowVars>>

\* The 17 server.tool calls outside the if, and the if (HAS_OAUTH) after them
RegisterBearerTool_ConnectsFirst ==
    /\ pc = "registerBearer"
    /\ LET i == Len(registered) + 1 IN
       /\ ServerTool(BearerTools[i].name)
       /\ connected' = (i = Len(BearerTools))
       /\ pc' = IF i < Len(BearerTools) THEN "registerBearer"
                ELSE IF HAS_OAUTH THEN "registerOAuth" ELSE "startServer"
    /\ UNCHANGED <<procVars, exitCode, toolCount, stderr, _myUserId, calls,
                   returned, lookups, flowVars>>

RegisterBearerTool ==
    /\ pc = "registerBearer"
    /\ LET i == Len(registered) + 1 IN
       /\ ServerTool(BearerTools[i].name)
       /\ pc' = IF i < Len(BearerTools) THEN "registerBearer"
                ELSE IF HAS_OAUTH THEN "registerOAuth" ELSE "startServer"
    /\ UNCHANGED <<procVars, exitCode, connected, toolCount, stderr, _myUserId, calls,
                   returned, lookups, flowVars>>

\* if (HAS_OAUTH) { the 14 server.tool calls
RegisterOAuthTool ==
    /\ pc = "registerOAuth"
    /\ LET i == Len(registered) - Len(BearerTools) + 1 IN
       /\ ServerTool(OAuthTools[i].name)
       /\ pc' = IF i < Len(OAuthTools) THEN "registerOAuth" ELSE "registerToggle"
    /\ UNCHANGED <<procVars, exitCode, connected, toolCount, stderr, _myUserId, calls,
                   returned, lookups, flowVars>>

\* for (const [name, ...] of toggleTools) server.tool(name, ...) }
RegisterToggleTool ==
    /\ pc = "registerToggle"
    /\ LET i == Len(registered) - Len(BearerTools) - Len(OAuthTools) + 1 IN
       /\ ServerTool(toggleTools[i][1])
       /\ pc' = IF i < Len(toggleTools) THEN "registerToggle" ELSE "startServer"
    /\ UNCHANGED <<procVars, exitCode, connected, toolCount, stderr, _myUserId, calls,
                   returned, lookups, flowVars>>

\* const toolCount = HAS_OAUTH ? 44 : 17; if (!HAS_OAUTH) { console.error ... }
StartServer ==
    /\ pc = "startServer"
    /\ toolCount' = IF HAS_OAUTH THEN 44 ELSE 17
    /\ stderr' = IF ~HAS_OAUTH
                 THEN stderr \o <<"running with 17 read-only tools", "for full 44-tool access">>
                 ELSE stderr
    /\ pc' = "connect"
    /\ UNCHANGED <<procVars, exitCode, registered, connected, _myUserId, calls,
                   returned, lookups, flowVars>>

\* await server.connect(transport)
Connect ==
    /\ pc = "connect"
    /\ connected' = TRUE
    /\ pc' = "serving"
    /\ UNCHANGED <<procVars, exitCode, registered, toolCount, stderr, _myUserId, calls,
                   returned, lookups, flowVars>>

----------------------------------------------------------------------------
(* Tool calls.  A handler runs to its next await in one step; the response *)
(* it awaits is delivered by a later step, and other calls run in between. *)

Serving == pc = "serving" /\ exitCode = Running

\* A call of a name the server never declared: no handler runs
CallUnknownTool(name) ==
    /\ Serving
    /\ name \notin RegisteredNames
    /\ returned' = [tool |-> name, id |-> "", stage |-> "", sent |-> <<>>,
                    resps |-> <<>>, result |-> UnknownTool]
    /\ UNCHANGED <<procVars, pc, exitCode, registered, connected, toolCount, stderr,
                   _myUserId, calls, lookups, flowVars>>

Begin(s, name, id, stage, req) ==
    calls' = [calls EXCEPT ![s] = [tool |-> name, id |-> id, pc |-> stage,
                                   sent |-> <<req>>, resps |-> <<>>]]

\* A handler whose first await is its own dispatcher call
CallDirect(s, name, id) ==
    /\ Serving
    /\ calls[s].pc = "idle"
    /\ name \in RegisteredNames
    /\ ~NeedsMe(name)
    /\ name # "upload_media"
    /\ Begin(s, name, id, "own", OwnRequest(name, NULL, id))
    /\ returned' = NoReturn
    /\ UNCHANGED <<procVars, pc, exitCode, registered, connected, toolCount, stderr,
                   _myUserId, lookups, flowVars>>

\* upload_media: const imgRes = await fetch(media_url)
CallUploadMedia(s, id) ==
    /\ Serving
    /\ calls[s].pc = "idle"
    /\ "upload_media" \in RegisteredNames
    /\ Begin(s, "upload_media", id, "download", DownloadRequest)
    /\ returned' = NoReturn
    /\ UNCHANGED <<procVars, pc, exitCode, registered, connected, toolCount, stderr,
                   _myUserId, lookups, flowVars>>

\* const myId = await getMyUserId(), with if (_myUserId) return _myUserId taken:
\* the handler goes on to its own request
CallCached(s, name, id) ==
    /\ Serving
    /\ calls[s].pc = "idle"
    /\ name \in RegisteredNames
    /\ NeedsMe(name)
    /\ _myUserId # NULL
    /\ Begin(s, name, id, "own", OwnRequest(name, _myUserId, id))
    /\ returned' = NoReturn
    /\ UNCHANGED <<procVars, pc, exitCode, registered, connected, toolCount, stderr,
                   _myUserId, lookups, flowVars>>

\* const myId = await getMyUserId(), _myUserId still null:
\* await xapiAuth("GET", "/users/me", null)
CallLookup(s, name, id) ==
    /\ Serving
    /\ calls[s].pc = "idle"
    /\ name \in RegisteredNames
    /\ NeedsMe(name)
    /\ _myUserId = NULL
    /\ lookups < MaxLookups
    /\ Begin(s, name, id, "lookup", MeRequest)
    /\ lookups' = lookups + 1
    /\ returned' = NoReturn
    /\ UNCHANGED <<procVars, pc, exitCode, registered, connected, toolCount, stderr,
                   _myUserId, flowVars>>

LookupResponse_SendsAnyway(s, res) ==
    /\ Serving
    /\ calls[s].pc = "lookup"
    /\ LET c == calls[s]
           o == getMyUserIdOutcome(res)
           me == IF o.kind = "throw" THEN "undefined" ELSE o.value
       IN  /\ _myUserId' = IF o.kind = "throw" THEN _myUserId ELSE o.value
           /\ calls' = [calls EXCEPT ![s] =
                  [c EXCEPT !.pc = "own",
                            !.sent = Append(c.sent, OwnRequest(c.tool, me, c.id)),
                            !.resps = Append(c.resps, res)]]
           /\ returned' = NoReturn
    /\ UNCHANGED <<procVars, pc, exitCode, registered, connected, toolCount, stderr,
                   lookups, flowVars>>

LookupResponse_CachesFailure(s, res) ==
    /\ Serving
    /\ calls[s].pc = "lookup"
    /\ LET c == calls[s]
           o == getMyUserIdOutcome(res)
       IN  IF o.kind = "throw"
           THEN /\ returned' = Return(c, Append(c.resps, res), o)
                /\ calls' = [calls EXCEPT ![s] = Idle]
                /\ _myUserId' = "undefined"
           ELSE /\ _myUserId' = o.value
                /\ calls' = [calls EXCEPT ![s] =
                       [c EXCEPT !.pc = "own",
                                 !.sent = Append(c.sent, OwnRequest(c.tool, o.value, c.id)),
                                 !.resps = Append(c.resps, res)]]
                /\ returned' = NoReturn
    /\ UNCHANGED <<procVars, pc, exitCode, registered, connected, toolCount, stderr,
                   lookups, flowVars>>

\* The lookup's response: _myUserId = data.data.id, then the handler's own
\* request; a throw of xapiAuth or of data.data.id ends the call
LookupResponse(s, res) ==
    /\ Serving
    /\ calls[s].pc = "lookup"
    /\ LET c == calls[s]
           o == getMyUserIdOutcome(res)
       IN  IF o.kind = "throw"
           THEN /\ returned' = Return(c, Append(c.resps, res), o)
                /\ calls' = [calls EXCEPT ![s] = Idle]
                /\ UNCHANGED _myUserId
           ELSE /\ _myUserId' = o.value
                /\ calls' = [calls EXCEPT ![s] =
                       [c EXCEPT !.pc = "own",
                                 !.sent = Append(c.sent, OwnRequest(c.tool, o.value, c.id)),
                                 !.resps = Append(c.resps, res)]]
                /\ returned' = NoReturn
    /\ UNCHANGED <<procVars, pc, exitCode, registered, connected, toolCount, stderr,
                   lookups, flowVars>>

\* upload_media after the download: if (!imgRes.ok) throw ...; xapiUpload(formData)
DownloadResponse(s, res) ==
    /\ Serving
    /\ calls[s].pc = "download"
    /\ LET c == calls[s] IN
       IF ~ResOk(res)
       THEN /\ returned' = Return(c, Append(c.resps, res),
                                  Thrown("Failed to download image", res.status, ""))
            /\ calls' = [calls EXCEPT ![s] = Idle]
       ELSE /\ calls' = [calls EXCEPT ![s] =
                   [c EXCEPT !.pc = "own",
                             !.sent = Append(c.sent, OwnRequest(c.tool, NULL, c.id)),
                             !.resps = Append(c.resps, res)]]
            /\ returned' = NoReturn
    /\ UNCHANGED <<procVars, pc, exitCode, registered, connected, toolCount, stderr,
                   _myUserId, lookups, flowVars>>

\* The response to the handler's own request: return ok(data), or the throw
OwnResponse(s, res) ==
    /\ Serving
    /\ calls[s].pc = "own"
    /\ LET c == calls[s]
           req == c.sent[Len(c.sent)]
       IN  returned' = Return(c, Append(c.resps, res), DispatchOutcome(req.disp, res))
    /\ calls' = [calls EXCEPT ![s] = Idle]
    /\ UNCHANGED <<procVars, pc, exitCode, registered, connected, toolCount, stderr,
                   _myUserId, lookups, flowVars>>

----------------------------------------------------------------------------
(* setup.js: the three-legged authorization flow *)

API_KEY == env.X_API_KEY
API_SECRET == env.X_API_SECRET

CALLBACK_URL == "http://localhost:3456/callback"

\* setTimeout(..., 300000)
TIMEOUT_MS == 300000

\* The step by which the model's clock advances
TickMs == TIMEOUT_MS \div 3

\* A form-encoded body, as the ordered list of its fields
ReqTokenForm == << <<"oauth_token", "reqtok">>, <<"oauth_token_secret", "reqsec">>,
                   <<"oauth_callback_confirmed", "true">> >>
AccessForm == << <<"oauth_token", "acctok">>, <<"oauth_token_secret", "accsec">>,
                 <<"user_id", "42">>, <<"screen_name", "alice">> >>
ErrForm == << <<"Callback URL not approved for this client application", "">> >>

ReqTokenResponses ==
    {[status |-> 200, body |-> ReqTokenForm], [status |-> 200, body |-> <<>>],
     [status |-> 401, body |-> ErrForm], [status |-> 403, body |-> <<>>]}

AccessResponses ==
    {[status |-> 200, body |-> AccessForm], [status |-> 200, body |-> <<>>],
     [status |-> 401, body |-> ErrForm]}

\* URLSearchParams.get: the first value of the name, or null
Get(form, k) ==
    IF \E i \in DOMAIN form : form[i][1] = k
    THEN form[CHOOSE i \in DOMAIN form :
                  form[i][1] = k /\ \A j \in 1..(i - 1) : form[j][1] # k][2]
    ELSE NULL

\* sign(method, url, params, tokenSecret) and the fetch it is passed to
Signed(method, url, params, tokenSecret) ==
    [method |-> method, url |-> url, auth |-> "OAuth", params |-> params,
     tokenSecret |-> tokenSecret]

reqTokenUrl == "https://api.x.com/oauth/request_token"
accessTokenUrl == "https://api.x.com/oauth/access_token"

\* srv.close()
srvClose_Noop(l) == l

srvClose(l) == "closed"

Flowing == pc = "setup" /\ exitCode = Running

\* console.error(...); process.exit(1), or an uncaught rejection of the
\* top-level await
Fail(kind, status, body) ==
    /\ flowErr' = Failure(kind, status, body)
    /\ fpc' = "failed"
    /\ Exit(1)

\* From the env check to await fetch(reqTokenUrl, ...)
RequestToken ==
    /\ Flowing
    /\ fpc = "envCheck"
    /\ IF API_KEY = "" \/ API_SECRET = ""
       THEN /\ Fail("MissingEnv", 0, <<>>)
            /\ UNCHANGED flowSent
       ELSE /\ flowSent' = Append(flowSent,
                   Signed("POST", reqTokenUrl, << <<"oauth_callback", CALLBACK_URL>> >>, ""))
            /\ fpc' = "awaitRequestToken"
            /\ UNCHANGED <<pc, exitCode, flowErr>>
    /\ UNCHANGED <<procVars, srvVars, oauthToken, oauthTokenSecret, browser, listener,
                   promise, verifier, timer, elapsed, keepAlive, callbacks, stdout>>

RequestTokenResponse_NoCheck(res) ==
    /\ Flowing
    /\ fpc = "awaitRequestToken"
    /\ oauthToken' = Get(res.body, "oauth_token")
    /\ oauthTokenSecret' = Get(res.body, "oauth_token_secret")
    /\ browser' = "running"
    /\ listener' = "binding"
    /\ promise' = "pending"
    /\ timer' = "armed"
    /\ fpc' = "waiting"
    /\ UNCHANGED <<pc, exitCode, flowErr>>
    /\ UNCHANGED <<procVars, srvVars, flowSent, verifier, elapsed, keepAlive, callbacks,
                   stdout>>

\* The response to the request-token call: failure, or the authorize URL,
\* exec(openCmd), and the promise executor (createServer, srv.listen,
\* srv.on("error"), setTimeout) up to await
RequestTokenResponse(res) ==
    /\ Flowing
    /\ fpc = "awaitRequestToken"
    /\ IF ~ResOk(res)
       THEN /\ Fail("RequestRejected", res.status, res.body)
            /\ UNCHANGED <<oauthToken, oauthTokenSecret, browser, listener, promise,
                           timer>>
       ELSE /\ oauthToken' = Get(res.body, "oauth_token")
            /\ oauthTokenSecret' = Get(res.body, "oauth_token_secret")
            /\ browser' = "running"
            /\ listener' = "binding"
            /\ promise' = "pending"
            /\ timer' = "armed"
            /\ fpc' = "waiting"
            /\ UNCHANGED <<pc, exitCode, flowErr>>
    /\ UNCHANGED <<procVars, srvVars, flowSent, verifier, elapsed, keepAlive, callbacks, stdout>>

OpenCommandEnds_Throws(ok) ==
    /\ Flowing
    /\ browser = "running"
    /\ browser' = IF ok THEN "opened" ELSE "failed"
    /\ IF ok
       THEN UNCHANGED <<pc, exitCode, fpc, flowErr>>
       ELSE Fail("BrowserFailed", 0, <<>>)
    /\ UNCHANGED <<procVars, srvVars, flowSent, oauthToken, oauthTokenSecret,
                   listener, promise, verifier, timer, elapsed, keepAlive, callbacks,
                   stdout>>

\* The child of exec(`${openCmd} "${authorizeUrl}"`) exits, with status 0
\* or not (the command is missing, or there is no browser); exec was given
\* no callback and its result is not awaited.  A child that never exits
\* takes no step.
OpenCommandEnds(ok) ==
    /\ Flowing
    /\ browser = "running"
    /\ browser' = IF ok THEN "opened" ELSE "failed"
    /\ UNCHANGED <<procVars, pc, exitCode, srvVars, fpc, flowSent, oauthToken,
                   oauthTokenSecret, listener, promise, verifier, timer, elapsed,
                   keepAlive, callbacks, stdout, flowErr>>

\* srv.listen(3456, ...) succeeded
ListenOk ==
    /\ Flowing
    /\ listener = "binding"
    /\ listener' = "bound"
    /\ UNCHANGED <<procVars, pc, exitCode, srvVars, fpc, flowSent, oauthToken,
                   oauthTokenSecret, browser, promise, verifier, timer, elapsed,
                   keepAlive, callbacks, stdout, flowErr>>

ListenError_AllReject(code) ==
    /\ Flowing
    /\ listener = "binding"
    /\ listener' = "failed"
    /\ promise' = "rejected"
    /\ Fail("ListenError", 0, <<>>)
    /\ UNCHANGED <<procVars, srvVars, flowSent, oauthToken, oauthTokenSecret, browser,
                   verifier, timer, elapsed, keepAlive, callbacks, stdout>>

\* srv.on("error", e): EADDRINUSE exits, anything else rejects the promise,
\* which the top-level await throws
ListenError(code) ==
    /\ Flowing
    /\ listener = "binding"
    /\ listener' = "failed"
    /\ IF code = "EADDRINUSE"
       THEN /\ Fail("PortUnavailable", 0, <<>>)
            /\ UNCHANGED promise
       ELSE /\ promise' = "rejected"
            /\ Fail("ListenError", 0, <<>>)
    /\ UNCHANGED <<procVars, srvVars, flowSent, oauthToken, oauthTokenSecret, browser,
                   verifier, timer, elapsed, keepAlive, callbacks, stdout>>

InboundRequest_LastWins(path, v, keep) ==
    /\ Flowing
    /\ listener = "bound" \/ keepAlive
    /\ path = "/callback" => callbacks < MaxCallbacks
    /\ IF path = "/callback"
       THEN /\ listener' = srvClose(listener)
            /\ keepAlive' = keep
            /\ callbacks' = callbacks + 1
            /\ verifier' = v
            /\ IF promise = "pending"
               THEN /\ promise' = "resolved"
                    /\ flowSent' = Append(flowSent,
                           Signed("POST", accessTokenUrl,
                                  << <<"oauth_token", oauthToken>>,
                                     <<"oauth_verifier", v>> >>,
                                  oauthTokenSecret))
                    /\ fpc' = "awaitExchange"
               ELSE UNCHANGED <<promise, flowSent, fpc>>
       ELSE /\ keepAlive' = TRUE
            /\ UNCHANGED <<listener, promise, verifier, flowSent, fpc, callbacks>>
    /\ UNCHANGED <<procVars, pc, exitCode, srvVars, oauthToken, oauthTokenSecret,
                   browser, timer, elapsed, stdout, flowErr>>

\* A request the listener's handler receives.  On /callback: res.end,
\* srv.close(), resolve(v); the first resolve lets the script go on to
\* await fetch(accessTokenUrl, ...).  On any other path: no response at all,
\* so the connection stays open.
InboundRequest(path, v, keep) ==
    /\ Flowing
    /\ listener = "bound" \/ keepAlive
    /\ path = "/callback" => callbacks < MaxCallbacks
    /\ IF path = "/callback"
       THEN /\ listener' = srvClose(listener)
            /\ keepAlive' = keep
            /\ callbacks' = callbacks + 1
            /\ IF promise = "pending"
               THEN /\ promise' = "resolved"
                    /\ verifier' = v
                    /\ flowSent' = Append(flowSent,
                           Signed("POST", accessTokenUrl,
                                  << <<"oauth_token", oauthToken>>,
                                     <<"oauth_verifier", v>> >>,
                                  oauthTokenSecret))
                    /\ fpc' = "awaitExchange"
               ELSE UNCHANGED <<promise, verifier, flowSent, fpc>>
       ELSE /\ keepAlive' = TRUE
            /\ UNCHANGED <<listener, promise, verifier, flowSent, fpc, callbacks>>
    /\ UNCHANGED <<procVars, pc, exitCode, srvVars, oauthToken, oauthTokenSecret,
                   browser, timer, elapsed, stdout, flowErr>>

\* The client closes a connection it had kept open
ConnectionClosed ==
    /\ Flowing
    /\ keepAlive
    /\ keepAlive' = FALSE
    /\ UNCHANGED <<procVars, pc, exitCode, srvVars, fpc, flowSent, oauthToken,
                   oauthTokenSecret, browser, listener, promise, verifier, timer,
                   elapsed, callbacks, stdout, flowErr>>

\* Time passes while the timer is pending
Tick ==
    /\ Flowing
    /\ timer = "armed"
    /\ listener # "binding"
    /\ elapsed < TIMEOUT_MS
    /\ elapsed' = elapsed + TickMs
    /\ UNCHANGED <<procVars, pc, exitCode, srvVars, fpc, flowSent, oauthToken,
                   oauthTokenSecret, browser, listener, promise, verifier, timer,
                   keepAlive, callbacks, stdout, flowErr>>

TimerFires_NoReject ==
    /\ Flowing
    /\ timer = "armed"
    /\ elapsed >= TIMEOUT_MS
    /\ timer' = "fired"
    /\ listener' = srvClose(listener)
    /\ UNCHANGED <<procVars, pc, exitCode, srvVars, fpc, flowSent, oauthToken,
                   oauthTokenSecret, browser, promise, verifier, elapsed, keepAlive, callbacks,
                   stdout, flowErr>>

TimerFires_AlwaysRejects ==
    /\ Flowing
    /\ timer = "armed"
    /\ elapsed >= TIMEOUT_MS
    /\ timer' = "fired"
    /\ listener' = srvClose(listener)
    /\ promise' = "rejected"
    /\ Fail("Timeout", 0, <<>>)
    /\ UNCHANGED <<procVars, srvVars, flowSent, oauthToken, oauthTokenSecret, browser,
                   verifier, elapsed, keepAlive, callbacks, stdout>>

\* setTimeout(() => { srv.close(); reject(new Error("Timeout ...")) }, 300000)
TimerFires ==
    /\ Flowing
    /\ timer = "armed"
    /\ elapsed >= TIMEOUT_MS
    /\ timer' = "fired"
    /\ listener' = srvClose(listener)
    /\ IF promise = "pending"
       THEN /\ promise' = "rejected"
            /\ Fail("Timeout", 0, <<>>)
       ELSE UNCHANGED <<promise, flowErr, fpc, pc, exitCode>>
    /\ UNCHANGED <<procVars, srvVars, flowSent, oauthToken, oauthTokenSecret, browser,
                   verifier, elapsed, keepAlive, callbacks, stdout>>

ExchangeResponse_NoCheck(res) ==
    /\ Flowing
    /\ fpc = "awaitExchange"
    /\ stdout' = [X_ACCESS_TOKEN        |-> Get(res.body, "oauth_token"),
                  X_ACCESS_TOKEN_SECRET |-> Get(res.body, "oauth_token_secret"),
                  screenName            |-> Get(res.body, "screen_name"),
                  userId                |-> Get(res.body, "user_id"),
                  printed               |-> TRUE]
    /\ fpc' = "done"
    /\ UNCHANGED <<pc, exitCode, flowErr>>
    /\ UNCHANGED <<procVars, srvVars, flowSent, oauthToken, oauthTokenSecret, browser,
                   listener, promise, verifier, timer, elapsed, keepAlive, callbacks>>

ExchangeResponse_SecretAsToken(res) ==
    /\ Flowing
    /\ fpc = "awaitExchange"
    /\ IF ~ResOk(res)
       THEN /\ Fail("ExchangeRejected", res.status, res.body)
            /\ UNCHANGED stdout
       ELSE /\ stdout' = [X_ACCESS_TOKEN        |-> Get(res.body, "oauth_token"),
                          X_ACCESS_TOKEN_SECRET |-> Get(res.body, "oauth_token"),
                          screenName            |-> Get(res.body, "screen_name"),
                          userId                |-> Get(res.body, "user_id"),
                          printed               |-> TRUE]
            /\ fpc' = "done"
            /\ UNCHANGED <<pc, exitCode, flowErr>>
    /\ UNCHANGED <<procVars, srvVars, flowSent, oauthToken, oauthTokenSecret, browser,
                   listener, promise, verifier, timer, elapsed, keepAlive, callbacks>>

\* The response to the access-token call: failure, or the credentials printed
ExchangeResponse(res) ==
    /\ Flowing
    /\ fpc = "awaitExchange"
    /\ IF ~ResOk(res)
       THEN /\ Fail("ExchangeRejected", res.status, res.body)
            /\ UNCHANGED stdout
       ELSE /\ stdout' = [X_ACCESS_TOKEN        |-> Get(res.body, "oauth_token"),
                          X_ACCESS_TOKEN_SECRET |-> Get(res.body, "oauth_token_secret"),
                          screenName            |-> Get(res.body, "screen_name"),
                          userId                |-> Get(res.body, "user_id"),
                          printed               |-> TRUE]
            /\ fpc' = "done"
            /\ UNCHANGED <<pc, exitCode, flowErr>>
    /\ UNCHANGED <<procVars, srvVars, flowSent, oauthToken, oauthTokenSecret, browser,
                   listener, promise, verifier, timer, elapsed, keepAlive, callbacks>>

\* node setup.js: the script has ended and nothing keeps the event loop alive
ScriptEnds ==
    /\ Flowing
    /\ entry = "setup"
    /\ fpc = "done"
    /\ timer # "armed"
    /\ listener # "bound"
    /\ ~keepAlive
    /\ browser # "running"
    /\ Exit(0)
    /\ UNCHANGED <<procVars, srvVars, flowVars>>

FlowNext ==
    \/ RequestToken
    \/ \E res \in ReqTokenResponses : RequestTokenResponse(res)
    \/ \E ok \in BOOLEAN : OpenCommandEnds(ok)
    \/ ListenOk
    \/ \E code \in {"EADDRINUSE", "EACCES"} : ListenError(code)
    \/ \E path \in {"/callback", "/favicon.ico"}, v \in {NULL, "abc123"}, keep \in BOOLEAN :
          InboundRequest(path, v, keep)
    \/ ConnectionClosed
    \/ Tick
    \/ TimerFires
    \/ \E res \in AccessResponses : ExchangeResponse(res)
    \/ ScriptEnds

ServerNext ==
    \/ SetupMode
    \/ SetupModeExit
    \/ AuthConfig
    \/ RegisterBearerTool
    \/ RegisterOAuthTool
    \/ RegisterToggleTool
    \/ StartServer
    \/ Connect
    \/ \E name \in CallNames : CallUnknownTool(name)
    \/ \E s \in Slots, name \in CallNames, id \in ArgIds :
          \/ CallDirect(s, name, id)
          \/ CallCached(s, name, id)
          \/ CallLookup(s, name, id)
    \/ \E s \in Slots, id \in ArgIds : CallUploadMedia(s, id)
    \/ \E s \in Slots, res \in Responses :
          \/ LookupResponse(s, res)
          \/ DownloadResponse(s, res)
          \/ OwnResponse(s, res)

Next == ServerNext \/ FlowNext

Spec == Init /\ [][Next]_vars

\* The event loop runs a pending listen result and an expired timer, and
\* time passes.
FairSpec ==
    /\ Spec
    /\ WF_vars(ListenOk \/ \E code \in {"EADDRINUSE", "EACCES"} : ListenError(code))
    /\ WF_vars(Tick)
    /\ WF_vars(TimerFires)

\* Besides, a fetch that was started settles: the access-token call is
\* answered.
FairFlowSpec ==
    /\ FairSpec
    /\ WF_vars(\E res \in AccessResponses : ExchangeResponse(res))

\* Besides, the top-level statements of the scripts run, and the
\* request-token call is answered.
FairSetupSpec ==
    /\ FairFlowSpec
    /\ WF_vars(SetupMode)
    /\ WF_vars(SetupModeExit)
    /\ WF_vars(RequestToken)
    /\ WF_vars(\E res \in ReqTokenResponses : RequestTokenResponse(res))

----------------------------------------------------------------------------
(* Signing runs: enc and the parameter string applied to drawn inputs *)

\* The characters of enc's arguments: unreserved ones, the five that
\* encodeURIComponent leaves and enc escapes, other ASCII, and one beyond
EncChars ==
    {"a", "Z", "7", "-", ".", "_", "~", "!", "*", "'", "(", ")", " ", "%", "=",
     "U+00E9"}

Strings == UNION {[1..m -> EncChars] : m \in 0..MaxStr}

\* Query parameter names and values; "a=" sorts after "a1", "a%3D" before
QueryKeys == {<<"a", "1">>, <<"a", "=">>, <<"b">>}
QueryValues == {<<"1">>, <<"2">>}
Queries == UNION {[1..m -> QueryKeys \X QueryValues] : m \in 0..MaxQuery}

\* Math.floor(Date.now() / 1000).toString() and randomBytes(16).toString("hex")
Timestamps == {<<"1", "7">>}
Nonces == {<<"a", "b">>, <<"c", "d">>}

SignInit ==
    /\ entry = "sign"
    /\ argv = {}
    /\ env = [X_BEARER_TOKEN |-> "v", X_API_KEY |-> "v", X_API_SECRET |-> "v",
              X_ACCESS_TOKEN |-> "v", X_ACCESS_TOKEN_SECRET |-> "v"]
    /\ pc = "sign"
    /\ exitCode = Running
    /\ registered = <<>>
    /\ connected = FALSE
    /\ toolCount = 0
    /\ stderr = <<>>
    /\ _myUserId = NULL
    /\ calls = [s \in Slots |-> Idle]
    /\ returned = NoReturn
    /\ lookups = 0
    /\ fpc = "notrun"
    /\ flowSent = <<>>
    /\ oauthToken = NULL
    /\ oauthTokenSecret = NULL
    /\ browser = "none"
    /\ listener = "none"
    /\ promise = "none"
    /\ verifier = NULL
    /\ timer = "none"
    /\ elapsed = 0
    /\ keepAlive = FALSE
    /\ callbacks = 0
    /\ stdout = NoCreds
    /\ flowErr = NoErr
    /\ task \in {"enc", "params", "sign"}
    /\ str \in IF task = "enc" THEN Strings ELSE {<<>>}
    /\ encoded = [s \in Scripts |-> Pending]
    /\ rnd \in [ts : Timestamps, nonce : IF task = "params" THEN Nonces ELSE {<<"a", "b">>}]
    /\ queryA \in IF task = "params" THEN Queries ELSE {<<>>}
    /\ queryB = queryA
    /\ built = [l \in Lists |-> [s \in Scripts |-> Pending]]
    /\ signed = [l \in Lists |-> NoRun]

SignFrame == UNCHANGED <<mainVars, pc, exitCode, srvVars, flowVars, task, str, rnd, queryA>>

\* A call of enc(str) in one of the scripts
Encode(script) ==
    /\ task = "enc"
    /\ encoded[script] = Pending
    /\ encoded' = [encoded EXCEPT ![script] =
                       IF script = "server" THEN enc(str) ELSE setup_enc(str)]
    /\ UNCHANGED <<queryB, built, signed>>
    /\ SignFrame

\* The caller gives the same parameters with two neighbours exchanged
Reorder(i) ==
    /\ task = "params"
    /\ \A s \in Scripts : built["B"][s] = Pending
    /\ i \in 1..(Len(queryB) - 1)
    /\ queryB[i] # queryB[i + 1]
    /\ queryB' = [queryB EXCEPT ![i] = queryB[i + 1], ![i + 1] = queryB[i]]
    /\ UNCHANGED <<encoded, built, signed>>
    /\ SignFrame

\* The parameter string of a parameter list: in the server, xapiAuth's
\* queryParams passed to oauthSign; in setup.js, the params passed to sign
Build(l, script) ==
    /\ task = "params"
    /\ built[l][script] = Pending
    /\ LET q == IF l = "A" THEN queryA ELSE queryB
       IN  built' = [built EXCEPT ![l][script] =
               IF script = "server"
               THEN paramStr(all(oauthParams(rnd.ts, rnd.nonce), queryParams(q)))
               ELSE setup_paramStr(setup_oauthParams(rnd.ts, rnd.nonce, queryParams(q)))]
    /\ UNCHANGED <<encoded, queryB, signed>>
    /\ SignFrame

\* The endpoints handed to xapiAuth: of getMyUserId, of get_my_profile, of
\* delete_post with an id that carries a query of two parameters of one
\* key ("/tweets/9?b=2&b=1"), the same with one parameter and a fragment,
\* and a v1.1 path
Endpoints ==
    {
      <<"/", "u", "s", "e", "r", "s", "/", "m", "e">>,
      <<"/", "u", "s", "e", "r", "s", "/", "m", "e", "?", "u", "s", "e", "r", ".", "f", "i",
        "e", "l", "d", "s", "=", "i", "d", "%", "2", "C", "n", "a", "m", "e">>,
      <<"/", "t", "w", "e", "e", "t", "s", "/", "9", "?", "b", "=", "2", "&", "b", "=", "1">>,
      <<"/", "t", "w", "e", "e", "t", "s", "/", "9", "?", "b", "=", "1", "#", "t", "o", "p">>,
      <<"/", "1", ".", "1", "/", "x">> }
Methods == {GET, POST, DELETE}

\* The body of a call: none, or one of two objects; and the parts of a form
SignBodies == {<<>>, << <<<<"t">>, <<"1">>>> >>, << <<<<"t">>, <<"2">>>> >>}
FormDatas == {<< <<<<"m">>, <<"1">>>> >>, << <<<<"m">>, <<"2">>>> >>}

\* The first call of a signing run is made before the second
Turn(l) ==
    /\ task = "sign"
    /\ signed[l].via = "none"
    /\ l = "B" => signed["A"].via # "none"

SignedFrame == UNCHANGED <<encoded, queryB, built>> /\ SignFrame

\* xapiAuth(method, endpoint, body) up to its fetch
CallXapiAuth(l, method, endpoint, body, ts, nonce) ==
    /\ Turn(l)
    /\ signed' = [signed EXCEPT ![l] = xapiAuth(method, endpoint, body, ts, nonce)]
    /\ SignedFrame

\* xapiUpload(formData) up to its fetch
CallXapiUpload(l, formData, ts, nonce) ==
    /\ Turn(l)
    /\ signed' = [signed EXCEPT ![l] = xapiUpload(formData, ts, nonce)]
    /\ SignedFrame

\* setup.js: sign("POST", reqTokenUrl, { oauth_callback }) or
\* sign("POST", accessTokenUrl, { oauth_token, oauth_verifier }, oauthTokenSecret)
CallSign(l, step, ts, nonce) ==
    /\ Turn(l)
    /\ signed' = [signed EXCEPT ![l] =
           IF step = "request"
           THEN setup_sign(POST,
                <<"h", "t", "t", "p", "s", ":", "/", "/", "a", "p", "i", ".", "x", ".", "c",
                  "o", "m", "/", "o", "a", "u", "t", "h", "/", "r", "e", "q", "u", "e", "s",
                  "t", "_", "t", "o", "k", "e", "n">>,
                  << <<oauth_callback,
                      <<"h", "t", "t", "p", ":", "/", "/", "l", "o", "c", "a", "l", "h", "o",
                        "s", "t", ":", "3", "4", "5", "6", "/", "c", "a", "l", "l", "b", "a",
                        "c", "k">>>> >>,
                  <<>>, ts, nonce)
           ELSE setup_sign(POST,
                <<"h", "t", "t", "p", "s", ":", "/", "/", "a", "p", "i", ".", "x", ".", "c",
                  "o", "m", "/", "o", "a", "u", "t", "h", "/", "a", "c", "c", "e", "s", "s",
                  "_", "t", "o", "k", "e", "n">>,
                  << <<oauth_token, Token>>, <<oauth_verifier, <<"v">>>> >>,
                  TokenSecret, ts, nonce)]
    /\ SignedFrame

SignNext ==
    \/ \E script \in Scripts : Encode(script)
    \/ \E i \in 1..MaxQuery : Reorder(i)
    \/ \E l \in Lists, script \in Scripts : Build(l, script)
    \/ \E l \in Lists, method \in Methods, endpoint \in Endpoints, body \in SignBodies,
          ts \in Timestamps, nonce \in Nonces :
          CallXapiAuth(l, method, endpoint, body, ts, nonce)
    \/ \E l \in Lists, formData \in FormDatas, ts \in Timestamps, nonce \in Nonces :
          CallXapiUpload(l, formData, ts, nonce)
    \/ \E l \in Lists, step \in {"request", "access"}, ts \in Timestamps, nonce \in Nonces :
          CallSign(l, step, ts, nonce)

SignSpec == SignInit /\ [][SignNext]_vars

----------------------------------------------------------------------------
(* Properties *)

DelegatedNames == OAuthNames \cup ToggleNames
FullSet == BearerNames \cup DelegatedNames

BearerSet == env.X_BEARER_TOKEN # ""
AllFourSet ==
    /\ env.X_API_KEY # ""
    /\ env.X_API_SECRET # ""
    /\ env.X_ACCESS_TOKEN # ""
    /\ env.X_ACCESS_TOKEN_SECRET # ""

\* Registration is over
RegistrationDone == pc \in {"startServer", "connect", "serving"}

\* The call that settled in this step, its last request and its response
Settled == returned.result.kind \notin {"none", "unknown"}
LastReq == returned.sent[Len(returned.sent)]
LastRes == returned.resps[Len(returned.resps)]
Dispatchers == {"xapi", "xapiAuth", "xapiUpload"}

\* C1: with a non-empty bearer token, once registration is over the
\* registered operations are exactly the 17 bearer tools when one of the
\* four OAuth credentials is empty, and exactly the bearer tools plus
\* every OAuth tool (all 12 toggles among them) when all four are set;
\* no name is registered twice.
C1_CapabilityGating ==
    (BearerSet /\ RegistrationDone) =>
        /\ Len(registered) = Cardinality(RegisteredNames)
        /\ ~AllFourSet => RegisteredNames = BearerNames
        /\ AllFourSet =>
              /\ RegisteredNames = FullSet
              /\ Cardinality(RegisteredNames \cap ToggleNames) = 12

C1_Witness ==
    /\ pc = "serving"
    /\ AllFourSet
    /\ RegisteredNames = FullSet
    /\ "unmute_user" \in RegisteredNames

\* C2: while one of the four OAuth credentials is empty, no delegated
\* operation is registered, a call of a delegated name is answered as an
\* unknown tool, and no call in flight or settled has sent an OAuth-signed
\* request or looked up the caller's id.
C2_NoDelegatedWithoutCredentials ==
    ~AllFourSet =>
        /\ RegisteredNames \cap DelegatedNames = {}
        /\ lookups = 0
        /\ _myUserId = NULL
        /\ \A s \in Slots : \A i \in DOMAIN calls[s].sent : calls[s].sent[i].auth # "OAuth"
        /\ \A i \in DOMAIN returned.sent : returned.sent[i].auth # "OAuth"
        /\ returned.tool \in DelegatedNames => returned.result.kind = "unknown"

C2_Witness ==
    /\ BearerSet
    /\ ~AllFourSet
    /\ env.X_API_KEY # ""
    /\ returned.tool = "like_post"
    /\ returned.result.kind = "unknown"

\* C3: started as the server without --setup and with an empty bearer
\* token, the process registers nothing, never connects the transport, and
\* its only step is the exit with status 1, whatever the other four
\* credentials are.
C3_MissingBearerIsFatal ==
    (entry = "server" /\ "--setup" \notin argv /\ ~BearerSet) =>
        /\ registered = <<>>
        /\ ~connected
        /\ pc \in {"start", "exited"}
        /\ pc = "exited" => exitCode = 1
        /\ exitCode \in {Running, 1}

C3_Witness ==
    /\ entry = "server"
    /\ "--setup" \notin argv
    /\ ~BearerSet
    /\ AllFourSet
    /\ pc = "exited"
    /\ exitCode = 1

\* C4: once the server is about to connect, the count it announces is the
\* number of registered operations: 17 without the OAuth credentials, 44
\* with all of them.
C4_DiagnosticCountsAccurate ==
    pc \in {"connect", "serving"} =>
        /\ toolCount = Len(registered)
        /\ Len(registered) = IF AllFourSet THEN 44 ELSE 17

\* C5: in one process lifetime at most one GET /users/me lookup is issued.
C5_ResolvesAtMostOnce == lookups <= 1

\* C6: at no time are two GET /users/me lookups in flight.
C6_SingleFlight == Cardinality({s \in Slots : calls[s].pc = "lookup"}) <= 1

\* C7: a call in flight has exactly one request outstanding and every
\* response it got before was a success; a call that settles on a
\* non-success response of xapi, xapiAuth or xapiUpload throws an error
\* with that response's status and body, having sent nothing after the
\* request that failed.
C7_FailureSurfacedOnce ==
    /\ \A s \in Slots :
          calls[s].pc # "idle" =>
              /\ Len(calls[s].sent) = Len(calls[s].resps) + 1
              /\ \A i \in DOMAIN calls[s].resps : ResOk(calls[s].resps[i])
    /\ Settled =>
          /\ Len(returned.sent) = Len(returned.resps)
          /\ \A i \in 1..(Len(returned.resps) - 1) : ResOk(returned.resps[i])
          /\ (LastReq.disp \in Dispatchers /\ ~ResOk(LastRes)) =>
                /\ returned.result.kind = "throw"
                /\ returned.result.name \in {"X API", "X API upload"}
                /\ returned.result.status = LastRes.status
                /\ returned.result.body = LastRes.body

C7_Witness ==
    /\ Settled
    /\ returned.tool = "search_tweets"
    /\ LastRes = [status |-> 429, body |-> ErrJson]
    /\ returned.result = Thrown("X API", 429, ErrJson)
    /\ Len(returned.sent) = 1

\* C8: a call whose own request, through xapi or xapiAuth, is answered
\* 204 settles with a value and not with a throw.
C8_NoContentIsSuccess ==
    (Settled /\ returned.stage = "own" /\ LastReq.disp \in {"xapi", "xapiAuth"}
       /\ LastRes.status = 204) =>
        returned.result.kind = "value"

\* C9: when the flow has ended, the listener is not listening: it was
\* never created (missing env, request rejected), failed to bind (port
\* occupied, other listen error) or was closed (timeout, exchange
\* rejected, success).
C9_ListenerReleased ==
    fpc \in {"failed", "done"} =>
        listener =
            CASE fpc = "done" -> "closed"
              [] fpc = "failed" /\ flowErr.kind \in {"MissingEnv", "RequestRejected"} -> "none"
              [] fpc = "failed" /\ flowErr.kind \in {"PortUnavailable", "ListenError"} -> "failed"
              [] fpc = "failed" /\ flowErr.kind \in {"Timeout", "ExchangeRejected"} -> "closed"

C9_Witness ==
    /\ fpc = "done"
    /\ stdout.printed
    /\ listener = "closed"
    /\ pc = "exited"

\* The access-token call has been handed to fetch
ExchangeSent == \E i \in DOMAIN flowSent : flowSent[i].url = accessTokenUrl

TimedOut == flowErr.kind = "Timeout"

\* C10: the wait for the callback ends (a pending promise is eventually
\* settled, or the process has exited on a failed bind); when the timer fires on a pending promise the flow fails with
\* Timeout; and a flow that failed with Timeout ran for the 300 s, exited
\* with status 1, has closed the listener, has sent no access-token
\* request and has printed no credentials.
C10_TimeoutEndsTheFlow ==
    /\ [](TimedOut =>
            /\ fpc = "failed"
            /\ exitCode = 1
            /\ elapsed >= TIMEOUT_MS
            /\ listener = "closed"
            /\ ~ExchangeSent
            /\ ~stdout.printed)
    /\ [][(timer = "armed" /\ timer' = "fired" /\ promise = "pending") => TimedOut']_vars
    /\ [][~TimedOut]_vars
    /\ ((promise = "pending") ~> (promise # "pending" \/ exitCode # Running))

C10_Witness ==
    /\ TimedOut
    /\ pc = "exited"
    /\ listener = "closed"
    /\ keepAlive

\* A value a credential can be: neither absent nor empty
Present(x) == x \notin {NULL, ""}

\* The response carries the permanent token and secret
CarriesCredentials(res) ==
    /\ ResOk(res)
    /\ Present(Get(res.body, "oauth_token"))
    /\ Present(Get(res.body, "oauth_token_secret"))

\* C11 as stated: after a callback that delivered a verifier, every success
\* response (res.ok) to the exchange takes the flow to DONE with a
\* non-empty token and secret printed.
C11_AnySuccessGivesCredentials ==
    [][\A res \in AccessResponses :
          (ResOk(res) /\ Present(verifier) /\ ExchangeResponse(res)) =>
              /\ fpc' = "done"
              /\ Present(stdout'.X_ACCESS_TOKEN)
              /\ Present(stdout'.X_ACCESS_TOKEN_SECRET)]_vars

\* C11, amended: the flow that awaits the exchange after a callback is eventually
\* done or failed; a success response that carries a non-empty oauth_token
\* and oauth_token_secret takes it to DONE, printing exactly that token and
\* that secret; and DONE is reached in no other way than by a success
\* response to an exchange that a callback started.
C11_ExchangeSuccessCompletes ==
    /\ [][\A res \in AccessResponses :
            (CarriesCredentials(res) /\ Present(verifier) /\ ExchangeResponse(res)) =>
                /\ fpc' = "done"
                /\ stdout'.printed
                /\ stdout'.X_ACCESS_TOKEN = Get(res.body, "oauth_token")
                /\ stdout'.X_ACCESS_TOKEN_SECRET = Get(res.body, "oauth_token_secret")
                /\ Present(stdout'.X_ACCESS_TOKEN)
                /\ Present(stdout'.X_ACCESS_TOKEN_SECRET)
                /\ exitCode' = Running]_vars
    /\ [](fpc = "done" => (stdout.printed /\ promise = "resolved" /\ ExchangeSent))
    /\ ((fpc = "awaitExchange" /\ exitCode = Running) ~> (fpc \in {"done", "failed"}))

C11_Witness ==
    /\ fpc = "done"
    /\ verifier = "abc123"
    /\ stdout.X_ACCESS_TOKEN = "acctok"
    /\ stdout.X_ACCESS_TOKEN_SECRET = "accsec"
    /\ elapsed < TIMEOUT_MS

\* The access-token calls handed to fetch
ExchangeRequests == {i \in DOMAIN flowSent : flowSent[i].url = accessTokenUrl}

\* C12: the first /callback request served resolves the promise, and the
\* same step closes the listener and hands one access-token call, signed
\* with that request's verifier, to fetch; from then on the promise stays
\* resolved and no request, served through a connection still open or not,
\* changes the verifier or adds a call: there is exactly one access-token
\* call once the promise is resolved and none before.
C12_OneCallbackConsumed ==
    /\ [](Cardinality(ExchangeRequests) = IF promise = "resolved" THEN 1 ELSE 0)
    /\ [](promise = "resolved" =>
             /\ callbacks >= 1
             /\ listener = "closed"
             /\ \A i \in ExchangeRequests :
                   Get(flowSent[i].params, "oauth_verifier") = verifier)
    /\ [][(promise = "pending" /\ callbacks' = callbacks + 1) =>
             (callbacks = 0 /\ promise' = "resolved" /\ listener' = "closed")]_vars
    /\ [][promise = "resolved" =>
             (promise' = "resolved" /\ verifier' = verifier /\ flowSent' = flowSent)]_vars

C12_Witness ==
    /\ callbacks = 2
    /\ promise = "resolved"
    /\ verifier = "abc123"
    /\ Cardinality(ExchangeRequests) = 1
    /\ fpc = "awaitExchange"

\* C13: the listener is closed by the handler, the promise resolved and an
\* access-token call signed only with a verifier that a /callback request
\* carried: never with the null of a request without oauth_verifier.
C13_VerifierRequired ==
    /\ promise = "resolved" => verifier # NULL
    /\ (listener = "closed" /\ timer = "armed") => verifier # NULL
    /\ \A i \in ExchangeRequests : Get(flowSent[i].params, "oauth_verifier") # NULL

\* C14: a bind that fails with EADDRINUSE ends the flow at once with the
\* port-unavailable report and exit status 1, the promise left pending
\* (neither the timeout's rejection nor the rejection of another listener
\* error); any other listener error and the timeout end it with their own
\* report; after the port-unavailable failure no access-token call has
\* been sent and no credentials have been printed.
C14_PortUnavailableIsDistinct ==
    /\ [][ListenError("EADDRINUSE") =>
             (flowErr' = Failure("PortUnavailable", 0, <<>>) /\ exitCode' = 1
                /\ pc' = "exited")]_vars
    /\ [][(ListenError("EACCES") \/ TimerFires) => flowErr'.kind # "PortUnavailable"]_vars
    /\ [](flowErr.kind = "PortUnavailable" =>
             /\ fpc = "failed"
             /\ exitCode = 1
             /\ listener = "failed"
             /\ promise = "pending"
             /\ timer = "armed"
             /\ callbacks = 0
             /\ ~ExchangeSent
             /\ stdout = NoCreds)

C14_Witness ==
    /\ flowErr.kind = "PortUnavailable"
    /\ pc = "exited"
    /\ exitCode = 1
    /\ listener = "failed"

\* C15: a non-success response to the request-token call ends the flow in
\* that step with its status and body reported and exit status 1; the
\* flow that failed so has run no open command, created no listener,
\* promise or timer, sent nothing but the request-token call and printed
\* no credentials.
C15_RequestRejectedFailsFast ==
    /\ [][\A res \in ReqTokenResponses :
            (~ResOk(res) /\ RequestTokenResponse(res)) =>
                (flowErr' = Failure("RequestRejected", res.status, res.body)
                   /\ exitCode' = 1 /\ pc' = "exited")]_vars
    /\ [](flowErr.kind = "RequestRejected" =>
             /\ fpc = "failed"
             /\ exitCode = 1
             /\ browser = "none"
             /\ listener = "none"
             /\ promise = "none"
             /\ timer = "none"
             /\ oauthToken = NULL
             /\ Len(flowSent) = 1
             /\ ~ExchangeSent
             /\ stdout = NoCreds)

C15_Witness ==
    /\ flowErr = Failure("RequestRejected", 401, ErrForm)
    /\ pc = "exited"
    /\ exitCode = 1
    /\ browser = "none"

\* C16: a non-success response to the access-token call ends the flow in
\* that step with its status and body reported and exit status 1, prints
\* no credentials and sends nothing; the flow that failed so has sent the
\* access-token call once.
C16_ExchangeRejectedFailsFast ==
    /\ [][\A res \in AccessResponses :
            (~ResOk(res) /\ ExchangeResponse(res)) =>
                /\ flowErr' = Failure("ExchangeRejected", res.status, res.body)
                /\ exitCode' = 1
                /\ pc' = "exited"
                /\ stdout' = NoCreds
                /\ flowSent' = flowSent]_vars
    /\ [](flowErr.kind = "ExchangeRejected" =>
             /\ fpc = "failed"
             /\ exitCode = 1
             /\ stdout = NoCreds
             /\ Cardinality(ExchangeRequests) = 1
             /\ Len(flowSent) = 2)

C16_Witness ==
    /\ flowErr = Failure("ExchangeRejected", 401, ErrForm)
    /\ pc = "exited"
    /\ exitCode = 1
    /\ verifier = "abc123"
    /\ ~stdout.printed

\* The ways the flow fails
FailureKinds ==
    {"MissingEnv", "RequestRejected", "PortUnavailable", "ListenError", "Timeout",
     "ExchangeRejected"}

\* C17: the open command is started in the step that creates the listener,
\* the promise and the timer, so the listener is started whatever becomes
\* of the command; the command's exit, with success or failure, changes
\* nothing but the record of the child; no failure of the flow is a
\* failure of the open command; and while the child has not exited the
\* flow's other steps are as enabled as after it has: the wait still ends
\* in success, timeout or failure.
C17_BrowserIsBestEffort ==
    /\ [](browser # "none" =>
             (listener # "none" /\ promise # "none" /\ timer # "none"))
    /\ [][browser' # browser =>
             \/ (browser = "none" /\ browser' = "running" /\ listener' = "binding")
             \/ (browser = "running" /\ browser' \in {"opened", "failed"}
                   /\ UNCHANGED <<procVars, pc, exitCode, srvVars, fpc, flowSent,
                                  oauthToken, oauthTokenSecret, listener, promise,
                                  verifier, timer, elapsed, keepAlive, callbacks,
                                  stdout, flowErr>>)]_vars
    /\ [](flowErr.kind \in FailureKinds \cup {"none"})
    /\ [](browser = "running" =>
             /\ (listener = "binding" /\ exitCode = Running) =>
                   (ENABLED ListenOk /\ ENABLED ListenError("EADDRINUSE"))
             /\ (listener = "bound" /\ exitCode = Running) =>
                   ENABLED InboundRequest("/callback", "abc123", FALSE)
             /\ (fpc = "awaitExchange" /\ exitCode = Running) =>
                   \A res \in AccessResponses : ENABLED ExchangeResponse(res)
             /\ (timer = "armed" /\ elapsed >= TIMEOUT_MS /\ exitCode = Running) =>
                   ENABLED TimerFires)

C17_Witness ==
    /\ browser = "failed"
    /\ fpc = "done"
    /\ stdout.X_ACCESS_TOKEN = "acctok"
    /\ listener = "closed"

\* The unreserved characters of RFC 3986
Unreserved == Lower \cup Upper \cup Digit \cup {"-", ".", "_", "~"}

UpperHex == {HexDigits[i] : i \in DOMAIN HexDigits}

\* The escape of one character: itself if unreserved, else %XX for each of
\* its UTF-8 octets
RECURSIVE Escapes(_)
Escapes(bs) ==
    IF bs = <<>> THEN <<>>
    ELSE <<"%", HexDigits[(Head(bs) \div 16) + 1], HexDigits[(Head(bs) % 16) + 1]>>
         \o Escapes(Tail(bs))

RECURSIVE PercentEncoded(_)
PercentEncoded(s) ==
    IF s = <<>> THEN <<>>
    ELSE (IF Head(s) \in Unreserved THEN <<Head(s)>> ELSE Escapes(Utf8(Code[Head(s)])))
         \o PercentEncoded(Tail(s))

\* C18: in the server and in setup.js, what enc returns for a string is,
\* character by character, the character itself when it is one of
\* A-Z a-z 0-9 - . _ ~ and the %XX escapes of its octets, in uppercase hex,
\* otherwise: the result holds only unreserved characters and "%" followed
\* by two uppercase hex digits, and ! * ' ( ) come out as %21 %2A %27 %28
\* %29.
C18_EncEscapesAllButUnreserved ==
    \A script \in Scripts :
        encoded[script] # Pending =>
            LET out == encoded[script]
            IN  /\ out = PercentEncoded(str)
                /\ \A i \in DOMAIN out :
                      /\ out[i] \in Unreserved \cup {"%"}
                      /\ out[i] = "%" =>
                            /\ i + 2 <= Len(out)
                            /\ out[i + 1] \in UpperHex
                            /\ out[i + 2] \in UpperHex
                /\ str = <<"!">> => out = <<"%", "2", "1">>
                /\ str = <<"*">> => out = <<"%", "2", "A">>
                /\ str = <<"'">> => out = <<"%", "2", "7">>
                /\ str = <<"(">> => out = <<"%", "2", "8">>
                /\ str = <<")">> => out = <<"%", "2", "9">>
                /\ (\A i \in DOMAIN str : str[i] \in Unreserved) <=> out = str

C18_Witness ==
    /\ task = "enc"
    /\ str = <<"*", "~">>
    /\ encoded["server"] = <<"%", "2", "A", "~">>
    /\ encoded["setup"] = <<"%", "2", "A", "~">>

\* The key/value pairs of a map, whatever their order
PairsOf(obj) == {obj[i] : i \in DOMAIN obj}

\* C19: when two parameter lists make the same map (the same key/value
\* pairs, inserted in different orders), each script builds the same
\* parameter string for both.
C19_InsertionOrderIrrelevant ==
    \A script \in Scripts :
        (/\ built["A"][script] # Pending
         /\ built["B"][script] # Pending
         /\ PairsOf(queryParams(queryA)) = PairsOf(queryParams(queryB))) =>
            built["A"][script] = built["B"][script]

C19_Witness ==
    /\ task = "params"
    /\ queryA = << <<(<<"b">>), (<<"1">>)>>, <<(<<"a", "1">>), (<<"2">>)>> >>
    /\ queryB = << <<(<<"a", "1">>), (<<"2">>)>>, <<(<<"b">>), (<<"1">>)>> >>
    /\ built["A"]["server"] # Pending
    /\ built["A"]["server"] = built["B"]["server"]
    /\ built["A"]["setup"] = built["B"]["setup"]
    /\ built["B"]["setup"] # Pending

\* The pairs a request is signed over: the protocol parameters and every
\* query parameter, each percent-encoded
EncodedPairs(pairs) ==
    [i \in DOMAIN pairs |-> <<PercentEncoded(pairs[i][1]), PercentEncoded(pairs[i][2])>>]

\* p comes before q: by key, then by value, by code point
PairBefore(p, q) == Before(p[1], q[1]) \/ (p[1] = q[1] /\ Before(p[2], q[2]))

RECURSIVE InsertPair(_, _)
InsertPair(p, sorted) ==
    IF sorted = <<>> THEN <<p>>
    ELSE IF PairBefore(p, Head(sorted)) THEN <<p>> \o sorted
    ELSE <<Head(sorted)>> \o InsertPair(p, Tail(sorted))

\* The pairs in ascending order
RECURSIVE SortPairs(_)
SortPairs(pairs) ==
    IF pairs = <<>> THEN <<>> ELSE InsertPair(Head(pairs), SortPairs(Tail(pairs)))

\* The pairs in ascending order, each rendered key=value, joined by &
NormalizedParams(pairs) ==
    LET sorted == SortPairs(EncodedPairs(pairs))
    IN  Join([i \in DOMAIN sorted |-> sorted[i][1] \o <<"=">> \o sorted[i][2]], <<"&">>)

\* C20: the parameter string the server builds for a request lists every
\* pair signed over (the six protocol parameters and each query parameter
\* of the URL, two of the same key included), percent-encoded, in
\* ascending order of encoded key and then encoded value.
C20_SortedByEncodedKeyThenValue ==
    built["A"]["server"] # Pending =>
        built["A"]["server"] = NormalizedParams(oauthParams(rnd.ts, rnd.nonce) \o queryA)

\* The six pairs: the resource each acts on, its parameter, and the undo
\* operation of each do operation
ToggleResource ==
    [like_post |-> "likes", repost |-> "retweets", follow_user |-> "following",
     bookmark_post |-> "bookmarks", block_user |-> "blocking", mute_user |-> "muting"]
ToggleParam ==
    [like_post |-> "tweet_id", repost |-> "tweet_id", follow_user |-> "target_user_id",
     bookmark_post |-> "tweet_id", block_user |-> "target_user_id",
     mute_user |-> "target_user_id"]
ToggleUndo ==
    [like_post |-> "unlike_post", repost |-> "unrepost", follow_user |-> "unfollow_user",
     bookmark_post |-> "unbookmark_post", block_user |-> "unblock_user",
     mute_user |-> "unmute_user"]
DoNames == DOMAIN ToggleResource
UndoNames == {ToggleUndo[d] : d \in DoNames}

\* The request of the claim for a toggle operation, own id me, argument id
ToggleShape(name, me, id) ==
    IF name \in DoNames
    THEN [disp |-> "xapiAuth", method |-> "POST", host |-> "https://api.x.com/2",
          path |-> <<"users", me, ToggleResource[name]>>, auth |-> "OAuth",
          body |-> <<ToggleParam[name], id>>]
    ELSE LET d == CHOOSE x \in DoNames : ToggleUndo[x] = name
         IN  [disp |-> "xapiAuth", method |-> "DELETE", host |-> "https://api.x.com/2",
              path |-> <<"users", me, ToggleResource[d], id>>, auth |-> "OAuth",
              body |-> NoBody]

\* A toggle call settled on the response to its own request
ToggleSettled == Settled /\ returned.tool \in ToggleNames /\ returned.stage = "own"

\* C23 as stated: every 2xx response to a toggle's request is returned as
\* success.
C23_Any2xxIsSuccess ==
    (ToggleSettled /\ ResOk(LastRes)) => returned.result.kind = "value"

\* C23, amended: the twelve toggle operations are the six pairs; with the
\* own id resolved, a do operation hands fetch one signed POST to
\* /users/{me}/<resource> with the body {<parameter>: id} and an undo
\* operation one signed DELETE to /users/{me}/<resource>/{id} without a
\* body, after at most the lookup of the own id; a 204, or a 2xx whose body
\* parses as JSON, is returned as success.
C23_TogglePairs ==
    /\ ToggleNames = DoNames \cup UndoNames
    /\ \A name \in ToggleNames :
          OwnRequest(name, "42", "1001") = ToggleShape(name, "42", "1001")
    /\ ToggleSettled =>
          /\ _myUserId # NULL
          /\ LastReq = ToggleShape(returned.tool, _myUserId, returned.id)
          /\ Len(returned.sent) \in {1, 2}
          /\ Len(returned.sent) = 2 => returned.sent[1] = MeRequest
          /\ (LastRes.status = 204 \/ (ResOk(LastRes) /\ JsonParses(LastRes.body))) =>
                returned.result.kind = "value"
          /\ LastRes.status = 204 => returned.result = Value([success |-> TRUE])

C23_Witness ==
    /\ ToggleSettled
    /\ returned.tool = "unlike_post"
    /\ LastReq.method = "DELETE"
    /\ LastReq.path = <<"users", "42", "likes", "1001">>
    /\ LastRes.status = 204
    /\ returned.result = Value([success |-> TRUE])

\* The server script started with --setup
SetupRun == entry = "server" /\ "--setup" \in argv

\* C24: a process started on the server script with --setup eventually
\* exits; it exits only out of the authorization flow, with status 0 when
\* the flow is done and 1 when it failed; and at no time in that run is an
\* operation registered, the transport connected, the tool count assigned
\* or the bearer diagnostic written, whatever X_BEARER_TOKEN is.
C24_SetupModeIsApart ==
    /\ [](SetupRun =>
             /\ registered = <<>>
             /\ ~connected
             /\ toolCount = 0
             /\ stderr = <<>>
             /\ pc \in {"start", "setup", "exited"}
             /\ calls = [s \in Slots |-> Idle]
             /\ pc = "exited" =>
                   /\ fpc \in {"done", "failed"}
                   /\ exitCode = IF fpc = "done" THEN 0 ELSE 1)
    /\ [][SetupRun => SetupRun']_vars
    /\ (SetupRun ~> (pc = "exited"))

C24_Witness ==
    /\ SetupRun
    /\ env.X_BEARER_TOKEN = ""
    /\ pc = "exited"
    /\ exitCode = 0
    /\ stdout.printed

\* C25: the transport is connected only when registration is over; a step
\* that changes the registered operations appends one operation and is
\* taken before the transport is connected; and once the transport is
\* connected it stays so and every step, tool calls and their responses
\* included, leaves the registered operations as they are.
C25_OperationSetFixed ==
    /\ [](connected => pc = "serving")
    /\ [](pc = "serving" => connected)
    /\ [][registered' # registered =>
             /\ ~connected
             /\ ~connected'
             /\ \E name \in FullSet : registered' = Append(registered, name)]_vars
    /\ [][connected => (connected' /\ registered' = registered)]_vars

C25_Witness ==
    /\ connected
    /\ Len(registered) = 43
    /\ returned.tool = "like_post"
    /\ returned.result.kind = "throw"
    /\ \E s \in Slots : calls[s].pc = "own"

TimerStep == timer = "armed" /\ timer' = "fired"

\* C27: the promise of the verifier wait is settled once: resolved or
\* rejected, it keeps that state.  While it is resolved the failure is never
\* Timeout; the step in which the timer fires after the callback changes
\* neither the position of the script, its failure, its exit code, the
\* verifier, the calls sent nor the output, and the access-token response
\* is still handled afterwards.  A run that ended in Timeout has sent no
\* access-token call and printed nothing, and no later step sends one.
C27_WaitSettledOnce ==
    /\ [][(promise \in {"resolved", "rejected"}) => promise' = promise]_vars
    /\ [](promise = "resolved" => flowErr.kind # "Timeout")
    /\ [][(TimerStep /\ promise = "resolved") =>
             UNCHANGED <<pc, exitCode, fpc, flowErr, flowSent, verifier, stdout, promise>>]_vars
    /\ []((timer = "fired" /\ fpc = "awaitExchange") =>
             \A res \in AccessResponses : ENABLED ExchangeResponse(res))
    /\ [][(TimerStep /\ promise = "pending") =>
             (promise' = "rejected" /\ flowErr'.kind = "Timeout" /\ exitCode' = 1)]_vars
    /\ [](flowErr.kind = "Timeout" =>
             (promise = "rejected" /\ ExchangeRequests = {} /\ ~stdout.printed))
    /\ [][flowErr.kind = "Timeout" => UNCHANGED <<flowSent, fpc, stdout, promise>>]_vars

C27_Witness ==
    /\ timer = "fired"
    /\ promise = "resolved"
    /\ fpc = "done"
    /\ stdout.printed
    /\ Cardinality(ExchangeRequests) = 1

\* The own request of a call that needs the caller's id, where it was sent
OwnIssued(c) == \E i \in DOMAIN c.sent : c.sent[i] # MeRequest

\* A call that needs the caller's id has its own request in flight only
\* with an id in its path that the cache held at the call or that the
\* response to its lookup carried
IdResolved(c) ==
    /\ Len(c.sent) \in {1, 2}
    /\ Len(c.sent) = 1 => c.sent[1] = OwnRequest(c.tool, "42", c.id)
    /\ Len(c.sent) = 2 =>
          /\ c.sent[1] = MeRequest
          /\ getMyUserIdOutcome(c.resps[1]).kind = "value"
          /\ c.sent[2] = OwnRequest(c.tool, getMyUserIdOutcome(c.resps[1]).value, c.id)

\* C28: a call that needs the caller's id and waits for the lookup has sent
\* the lookup only; its own request is in flight only with the id resolved;
\* a call whose lookup failed ends in that step with the error of the
\* lookup as its result, having sent the lookup and nothing else.
C28_IdBeforeOwnRequest ==
    /\ \A s \in Slots :
          /\ calls[s].pc = "lookup" =>
                (NeedsMe(calls[s].tool) /\ calls[s].sent = <<MeRequest>>)
          /\ (calls[s].pc = "own" /\ NeedsMe(calls[s].tool)) => IdResolved(calls[s])
    /\ (Settled /\ NeedsMe(returned.tool)) =>
          /\ returned.sent[1] = MeRequest =>
                IF getMyUserIdOutcome(returned.resps[1]).kind = "throw"
                THEN /\ returned.stage = "lookup"
                     /\ returned.sent = <<MeRequest>>
                     /\ ~OwnIssued(returned)
                     /\ returned.result = getMyUserIdOutcome(returned.resps[1])
                ELSE returned.stage = "own" /\ IdResolved(returned)
          /\ returned.stage = "lookup" =>
                /\ returned.result.kind = "throw"
                /\ returned.sent = <<MeRequest>>
          /\ returned.stage = "own" => IdResolved(returned)

C28_Witness ==
    /\ Settled
    /\ returned.tool = "pin_list"
    /\ returned.stage = "lookup"
    /\ LastRes.status = 429
    /\ returned.result.kind = "throw"
    /\ returned.sent = <<MeRequest>>

LookupFails(s, res) == LookupResponse(s, res) /\ getMyUserIdOutcome(res).kind = "throw"

\* C29: the cache holds nothing or the id of a lookup that succeeded; a
\* step that writes it is the response to a lookup that succeeded, and it
\* writes the id of that response; a lookup that fails leaves the cache as
\* it was; and while the cache is empty an operation that needs the
\* caller's id starts with a lookup and not with its own request.
C29_CacheOnlyOnSuccess ==
    /\ [](_myUserId \in {NULL, "42"})
    /\ [][_myUserId' # _myUserId =>
             \E s \in Slots, res \in Responses :
                /\ LookupResponse(s, res)
                /\ ResOk(res)
                /\ getMyUserIdOutcome(res).kind = "value"
                /\ _myUserId' = JsonValue(res.body).data.id]_vars
    /\ [][\A s \in Slots, res \in Responses : LookupFails(s, res) =>
             /\ _myUserId' = _myUserId
             /\ calls'[s] = Idle]_vars
    /\ [](\A s \in Slots, name \in CallNames :
             (/\ Serving
              /\ _myUserId = NULL
              /\ calls[s].pc = "idle"
              /\ name \in RegisteredNames
              /\ NeedsMe(name)) =>
                /\ ~ENABLED CallCached(s, name, "1001")
                /\ lookups < MaxLookups => ENABLED CallLookup(s, name, "1001"))

\* A lookup failed, the cache is empty, and the next operation has sent a
\* new lookup
C29_Witness ==
    /\ Settled
    /\ returned.stage = "lookup"
    /\ returned.result.kind = "throw"
    /\ _myUserId = NULL
    /\ lookups = 2
    /\ \E s \in Slots : calls[s].pc = "lookup" /\ calls[s].sent = <<MeRequest>>

\* C30: once the permanent credentials are printed, the timer the flow
\* armed is no longer pending.
C30_NoTimerAfterSuccess == (fpc = "done" /\ stdout.printed) => timer # "armed"

\* Two calls that were signed by the same signer with the same method, URL,
\* query parameters, nonce, timestamp and credentials
SameSix(x, y) ==
    /\ (x.via = "sign") = (y.via = "sign")
    /\ x.method = y.method
    /\ x.url = y.url
    /\ Range(x.queryParams) = Range(y.queryParams)
    /\ x.nonce = y.nonce
    /\ x.ts = y.ts
    /\ x.key = y.key

C22_BodyIsNotSigned ==
    /\ \A l \in Made :
          LET x == signed[l] IN
          /\ x.via = "xapiAuth" =>
                /\ x.queryParams = queryParams(searchParams(urlObj(x.fetchUrl).search))
                /\ x.baseStr = baseStr(x.method, urlObj(x.fetchUrl).originPathname,
                                       paramStr(all(oauthParams(x.ts, x.nonce),
                                                    x.queryParams)))
          /\ x.via = "xapiUpload" =>
                /\ x.queryParams = <<>>
                /\ x.baseStr = baseStr(POST, upload_url,
                                       paramStr(oauthParams(x.ts, x.nonce)))
    /\ Made = Lists =>
          LET x == signed["A"]
              y == signed["B"]
          IN  (/\ x.via = y.via
               /\ x.via \in {"xapiAuth", "xapiUpload"}
               /\ x.method = y.method
               /\ x.fetchUrl = y.fetchUrl
               /\ x.nonce = y.nonce
               /\ x.ts = y.ts) =>
                 /\ x.baseStr = y.baseStr
                 /\ x.sig = y.sig
                 /\ x.header = y.header

\* Two POST calls of xapiAuth that differ in their JSON bodies only
C22_Witness ==
    /\ Made = Lists
    /\ signed["A"].via = "xapiAuth"
    /\ signed["B"].via = "xapiAuth"
    /\ signed["A"].method = POST
    /\ signed["B"].method = POST
    /\ signed["A"].fetchUrl = signed["B"].fetchUrl
    /\ signed["A"].nonce = signed["B"].nonce
    /\ signed["A"].body # <<>>
    /\ signed["B"].body # <<>>
    /\ signed["A"].body # signed["B"].body
    /\ signed["A"].baseStr = signed["B"].baseStr

\* C26: the URL a call of xapiAuth is signed with has no query string and
\* no fragment, and the query parameters it is signed with are those of
\* the URL it requests.
C26_SignedQueryIsRequestedQuery ==
    \A l \in Made :
       LET x == signed[l] IN
       x.via = "xapiAuth" =>
          /\ IndexOf(x.url, "?") = 0
          /\ IndexOf(x.url, "#") = 0
          /\ Range(x.queryParams) = Range(searchParams(urlObj(x.fetchUrl).search))

====
